---- MODULE Spec2Model ----
(***************************************************************************)
(* Model of the chess-board GUI core: BoardState (gui/board_state.py),     *)
(* InputHandler (gui/input_handler.py), EngineController                   *)
(* (engine/engine_controller.py), EngineWrapper (engine/engine_wrapper.py),*)
(* PlayerClock (gui/player_clock.py) and the event loop of main.py.        *)
(*                                                                         *)
(* The rules library (python-chess) is an external collaborator.  It is    *)
(* modelled by the operators of the first section, with the library's      *)
(* square numbering (square = 8 * rank + file, ranks 0..7).  A position is *)
(* a function from the squares of its board to the pieces on them, and the *)
(* rules work on the squares of the position they are given.  Two boards   *)
(* are used: the board of the library, from the starting position          *)
(* (SpecOpening), and for the other specifications a board of the files    *)
(* 0..NumFiles-1 of the top NumRanks ranks, where a game starts from       *)
(* StartPos, a king and a pawn against a king.  A board keeps its castling *)
(* rights, en passant square and move counters; double pawn steps and      *)
(* captures en passant are generated.  Castling moves are not: in no       *)
(* position explored does the side to move hold a castling right with the  *)
(* squares between its king and rook empty.                                *)
(*                                                                         *)
(* Specifications:                                                         *)
(*   Spec, FairSpec              the whole event loop                      *)
(*   SpecEngine, FairSpecEngine  the event loop without pointer events     *)
(*   SpecResign                  the event loop with clicks on the board   *)
(*                               and the "Resign" button                   *)
(*   SpecNavigation              the event loop with the arrow keys and    *)
(*                               the clicks on the history panel           *)
(*   SpecBoard                   a BoardState driven through its methods   *)
(*   SpecInput                   the InputHandler under the pointer events *)
(*                               of main(), the engine answering at once   *)
(*   SpecLoad                    the same with clicks and loaded games     *)
(*   SpecClock                   the clocks of a timed game and the check  *)
(*                               for time expiration                       *)
(*   SpecRecord                  games saved to and loaded from PGN texts  *)
(*   SpecOpening                 a BoardState on the board of the library, *)
(*                               driven through opening lines              *)
(***************************************************************************)
EXTENDS Integers, Sequences, FiniteSets, TLC

\* ------------------------------------------------------------------------
\* Bounds of the exploration
\* ------------------------------------------------------------------------
NumFiles == 2       \* files of the board that exist (a, b, ...)
NumRanks == 4       \* ranks of the board that exist (the topmost ones, up to rank 8)
MaxPly == 2         \* moves on the real board's move stack in a game
MaxMoves == 2       \* moves on the move stack of a BoardState driven directly
MaxQueue == 2       \* queued premoves
MaxWorkers == 2     \* engine worker threads alive at once
MaxTime == 2        \* units of time of a time control
MaxClockPly == 2    \* moves on the move stack while the clocks are watched
MaxRecordPly == 2   \* moves on the move stack when records are saved and loaded
MaxRecordLen == 2   \* SAN tokens in the movetext of a loaded record
MaxOpeningPly == 4  \* moves of the opening lines played on the board of the library

\* ------------------------------------------------------------------------
\* Rules library (python-chess) as called from the source
\* ------------------------------------------------------------------------
WHITE == TRUE
BLACK == FALSE

NoPiece == "None"
WhiteSymbols == {"K", "Q", "R", "B", "N", "P"}
BlackSymbols == {"k", "q", "r", "b", "n", "p"}
NoPromotion == ""
PromotionSymbols == {"q", "r", "b", "n"}

None == <<>>
Some(x) == <<x>>
Val(o) == o[1]

square(file, rank) == 8 * rank + file
square_file(sq) == sq % 8
square_rank(sq) == sq \div 8
Squares == {square(f, r) : f \in 0..(NumFiles - 1), r \in (8 - NumRanks)..7}
\* chess.SQUARES: the squares of the library
SQUARES == {square(f, r) : f \in 0..7, r \in 0..7}

FILE_NAMES == <<"a", "b", "c", "d", "e", "f", "g", "h">>
RANK_NAMES == <<"1", "2", "3", "4", "5", "6", "7", "8">>
square_name(sq) == FILE_NAMES[square_file(sq) + 1] \o RANK_NAMES[square_rank(sq) + 1]
SQUARE_NAMES == [sq \in SQUARES |-> square_name(sq)]

Move(from_square, to_square, promotion) ==
    [from_square |-> from_square, to_square |-> to_square, promotion |-> promotion]

AllMoves ==
    {Move(f, t, p) : f \in Squares, t \in Squares, p \in PromotionSymbols \cup {NoPromotion}}

\* chess.Move.uci()
uci(move) ==
    square_name(move.from_square) \o square_name(move.to_square) \o move.promotion

\* chess.Move.from_uci(): the move, or ValueError for a malformed string
\* ("0000" is the null move, which is never legal)
ValueError == [error |-> "ValueError"]
PIECE_SYMBOLS == {"p", "n", "b", "r", "q", "k"}
NullMove == Move(0, 0, NoPromotion)
\* SQUARE_NAMES.index(name), as the set of the squares that name names
SquareNamed == [name \in {SQUARE_NAMES[q] : q \in SQUARES} |->
                   CHOOSE q \in SQUARES : SQUARE_NAMES[q] = name]
Named(name) == IF name \in DOMAIN SquareNamed THEN {SquareNamed[name]} ELSE {}
from_uci(s) ==
    IF s = "0000" THEN NullMove
    ELSE IF Len(s) \notin {4, 5} THEN ValueError
    ELSE LET froms == Named(SubSeq(s, 1, 2))
             tos == Named(SubSeq(s, 3, 4))
             promo == IF Len(s) = 5 THEN SubSeq(s, 5, 5) ELSE NoPromotion
         IN IF froms = {} \/ tos = {} THEN ValueError
            ELSE IF Len(s) = 5 /\ promo \notin PIECE_SYMBOLS THEN ValueError
            ELSE IF froms = tos THEN ValueError
            ELSE Move(CHOOSE q \in froms : TRUE, CHOOSE q \in tos : TRUE, promo)

color_of(sym) == sym \in WhiteSymbols
PieceTypeOf ==
    [sym \in WhiteSymbols \cup BlackSymbols |->
        CASE sym \in {"K", "k"} -> "k"
          [] sym \in {"Q", "q"} -> "q"
          [] sym \in {"R", "r"} -> "r"
          [] sym \in {"B", "b"} -> "b"
          [] sym \in {"N", "n"} -> "n"
          [] sym \in {"P", "p"} -> "p"]
piece_type(sym) == PieceTypeOf[sym]
WhiteSymbolOf ==
    [ptype \in PIECE_SYMBOLS |->
        CASE ptype = "k" -> "K" [] ptype = "q" -> "Q" [] ptype = "r" -> "R"
          [] ptype = "b" -> "B" [] ptype = "n" -> "N" [] ptype = "p" -> "P"]
symbol(ptype, color) == IF color = WHITE THEN WhiteSymbolOf[ptype] ELSE ptype

piece_at(board, sq) == board.pos[sq]
is_color(board, sq, color) ==
    board.pos[sq] # NoPiece /\ color_of(board.pos[sq]) = color

KingSteps == {<<1, 0>>, <<-1, 0>>, <<0, 1>>, <<0, -1>>,
              <<1, 1>>, <<1, -1>>, <<-1, 1>>, <<-1, -1>>}
KnightSteps == {<<1, 2>>, <<2, 1>>, <<-1, 2>>, <<-2, 1>>,
                <<1, -2>>, <<2, -1>>, <<-1, -2>>, <<-2, -1>>}
RookDirs == {<<1, 0>>, <<-1, 0>>, <<0, 1>>, <<0, -1>>}
BishopDirs == {<<1, 1>>, <<1, -1>>, <<-1, 1>>, <<-1, -1>>}

Shift(sq, d, k) == square(square_file(sq) + k * d[1], square_rank(sq) + k * d[2])
ShiftOn(sq, d, k) ==
    /\ square_file(sq) + k * d[1] \in 0..7
    /\ square_rank(sq) + k * d[2] \in 0..7

\* squares one step of S away from each square.  The tables are those of
\* the library; a position keeps the squares of its own board (DOMAIN pos)
StepTable(S) ==
    [sq \in SQUARES |-> {Shift(sq, d, 1) : d \in {d \in S : ShiftOn(sq, d, 1)}}]
KingAttacks == StepTable(KingSteps)
KnightAttacks == StepTable(KnightSteps)
WhitePawnAttacks == StepTable({<<1, 1>>, <<-1, 1>>})
BlackPawnAttacks == StepTable({<<1, -1>>, <<-1, -1>>})
\* the squares along each direction from each square, nearest first
RayTable ==
    [sq \in SQUARES |-> [d \in RookDirs \cup BishopDirs |->
        [k \in 1..Cardinality({k \in 1..7 : ShiftOn(sq, d, k)}) |-> Shift(sq, d, k)]]]

\* squares a slider on sq reaches along direction d (up to and including
\* the first occupied square)
Ray(pos, sq, d) ==
    LET line == RayTable[sq][d]
    IN {line[k] : k \in {k \in 1..Len(line) :
            /\ line[k] \in DOMAIN pos
            /\ \A j \in 1..(k - 1) : pos[line[j]] = NoPiece}}

PawnDir(color) == IF color = WHITE THEN 1 ELSE -1
PromotionRank(color) == IF color = WHITE THEN 7 ELSE 0
SecondRank(color) == IF color = WHITE THEN 1 ELSE 6

\* squares attacked by the piece standing on sq
Attacks(pos, sq) ==
    LET sym == pos[sq]
        t == PieceTypeOf[sym]
        rays(D) == UNION {Ray(pos, sq, d) : d \in D}
    IN CASE t = "k" -> KingAttacks[sq] \cap DOMAIN pos
         [] t = "n" -> KnightAttacks[sq] \cap DOMAIN pos
         [] t = "p" -> (IF sym = "P" THEN WhitePawnAttacks[sq] ELSE BlackPawnAttacks[sq])
                       \cap DOMAIN pos
         [] t = "r" -> rays(RookDirs)
         [] t = "b" -> rays(BishopDirs)
         [] t = "q" -> rays(RookDirs \cup BishopDirs)

\* the pieces of each colour that move along each direction
LineSliders ==
    [color \in BOOLEAN |-> [d \in RookDirs \cup BishopDirs |->
        {symbol("q", color), symbol(IF d \in RookDirs THEN "r" ELSE "b", color)}]]

\* one of the pieces sliders stands first on line
SliderOn(pos, sliders, line) ==
    \E k \in 1..Len(line) :
        /\ line[k] \in DOMAIN pos
        /\ pos[line[k]] \in sliders
        /\ \A j \in 1..(k - 1) : pos[line[j]] = NoPiece

\* color has a piece that slides
HasSliders(pos, color) ==
    \E q \in DOMAIN pos : pos[q] \in LineSliders[color][<<1, 0>>]
                                   \cup LineSliders[color][<<1, 1>>]

\* the attackers of sq are looked for from sq, the sliding ones only when
\* sliding says that color has a piece that slides
Attacked(pos, color, sq, sliding) ==
    \/ symbol("n", color) \in {pos[a] : a \in KnightAttacks[sq] \cap DOMAIN pos}
    \/ symbol("k", color) \in {pos[a] : a \in KingAttacks[sq] \cap DOMAIN pos}
    \/ symbol("p", color) \in
           {pos[a] : a \in (IF color = WHITE THEN BlackPawnAttacks[sq]
                            ELSE WhitePawnAttacks[sq]) \cap DOMAIN pos}
    \/ /\ sliding
       /\ \E d \in RookDirs \cup BishopDirs :
              SliderOn(pos, LineSliders[color][d], RayTable[sq][d])

\* chess.Board.is_attacked_by
is_attacked_by(pos, color, sq) == Attacked(pos, color, sq, HasSliders(pos, color))

\* the highest square of a set of squares, as a set
Highest(S) == {q \in S : \A o \in S : o <= q}

\* chess.Board.king(color): the set holding the king's square (the highest
\* one when the side has several kings), empty when the side has no king
king(pos, color) == Highest({q \in DOMAIN pos : pos[q] = symbol("k", color)})

\* the placement after chess.Board.push moved the piece on move.from_square
\* (no legality check): the piece lands in the colour of the side to move
Place(pos, move, turn) ==
    LET sym == pos[move.from_square]
        landed == IF move.promotion # NoPromotion
                  THEN symbol(move.promotion, turn)
                  ELSE symbol(piece_type(sym), turn)
    IN [q \in DOMAIN pos |->
           IF q = move.from_square THEN NoPiece
           ELSE IF q = move.to_square THEN landed
           ELSE pos[q]]

\* chess.Board.is_en_passant: a pawn captures onto the empty en passant
\* square
is_en_passant(pos, move, ep_square) ==
    /\ ep_square = Some(move.to_square)
    /\ pos[move.from_square] # NoPiece
    /\ piece_type(pos[move.from_square]) = "p"
    /\ square_file(move.from_square) # square_file(move.to_square)
    /\ pos[move.to_square] = NoPiece

\* the placement after chess.Board.push when the en passant square is
\* ep_square: a capture en passant also takes the pawn that was passed
PlaceEp(pos, move, turn, ep_square) ==
    IF is_en_passant(pos, move, ep_square)
    THEN [Place(pos, move, turn) EXCEPT
              ![square(square_file(move.to_square), square_rank(move.from_square))] = NoPiece]
    ELSE Place(pos, move, turn)

\* chess.Board.generate_pseudo_legal_ep: the captures en passant
generate_pseudo_legal_ep(pos, turn, ep_square) ==
    IF ep_square = None THEN {}
    ELSE IF Val(ep_square) \notin DOMAIN pos \/ pos[Val(ep_square)] # NoPiece THEN {}
    ELSE {Move(f, Val(ep_square), NoPromotion) :
             f \in {q \in DOMAIN pos :
                       /\ pos[q] = symbol("p", turn)
                       /\ square_rank(q) = (IF turn = WHITE THEN 4 ELSE 3)
                       /\ Val(ep_square) \in Attacks(pos, q)}}

\* chess.Board.generate_pseudo_legal_moves for the position pos with turn
\* to move
generate_pseudo_legal_moves(pos, turn) ==
    LET own(q) == pos[q] # NoPiece /\ color_of(pos[q]) = turn
        MovesFrom(f) ==
            IF piece_type(pos[f]) = "p"
            THEN LET fwd == <<0, PawnDir(turn)>>
                     free(k) ==
                         /\ ShiftOn(f, fwd, k)
                         /\ Shift(f, fwd, k) \in DOMAIN pos
                         /\ pos[Shift(f, fwd, k)] = NoPiece
                     ahead ==
                         IF free(1)
                         THEN {Shift(f, fwd, 1)}
                              \cup (IF square_rank(f) = SecondRank(turn) /\ free(2)
                                    THEN {Shift(f, fwd, 2)} ELSE {})
                         ELSE {}
                     targets ==
                         ahead \cup {t \in Attacks(pos, f) : pos[t] # NoPiece /\ ~own(t)}
                 IN UNION {IF square_rank(t) = PromotionRank(turn)
                           THEN {Move(f, t, p) : p \in PromotionSymbols}
                           ELSE {Move(f, t, NoPromotion)} : t \in targets}
            ELSE {Move(f, t, NoPromotion) : t \in {t \in Attacks(pos, f) : ~own(t)}}
    IN UNION {MovesFrom(f) : f \in {q \in DOMAIN pos : own(q)}}

\* chess.Board.generate_legal_moves: the pseudo-legal moves that do not
\* leave the mover's own king attacked (every pseudo-legal move when the
\* mover has no king)
\* (kings holds the squares of the mover's kings: the king is looked for
\* once, and follows the move when it is the king that moves; sliding says
\* that the other side had a piece that slides before the move)
Safe(pos, turn, ep_square, kings, sliding, m) ==
    \E placed \in {PlaceEp(pos, m, turn, ep_square)} :
        \A k \in Highest(IF m.from_square \in kings
                         THEN (kings \ {m.from_square}) \cup {m.to_square} ELSE kings) :
            ~Attacked(placed, ~turn, k, sliding)
SafeAmong(pos, turn, ep_square, kings, sliding, moves) ==
    {m \in moves : Safe(pos, turn, ep_square, kings, sliding, m)}
\* (the kings, the sliders and the pseudo-legal moves are worked out once)
LegalOn(pos, turn, ep_square) ==
    UNION {SafeAmong(pos, turn, ep_square, kings, sliding, moves) :
              kings \in {{q \in DOMAIN pos : pos[q] = symbol("k", turn)}},
              sliding \in {HasSliders(pos, ~turn)},
              moves \in {generate_pseudo_legal_moves(pos, turn)
                         \cup generate_pseudo_legal_ep(pos, turn, ep_square)}}
generate_legal_moves(pos, turn, ep_square) ==
    UNION {LegalOn(placement, turn, ep_square) : placement \in {pos}}

\* chess.Board.legal_moves.  A board carries the legal moves of its position
\* and side to move, worked out once when either is set
legal_moves(board) == board.legal

\* board.turn = color
with_turn(board, color) ==
    IF board.turn = color THEN board
    ELSE [board EXCEPT !.turn = color,
                       !.legal = generate_legal_moves(board.pos, color, board.ep_square)]

is_capture(board, move) ==
    \/ board.pos[move.to_square] # NoPiece
    \/ is_en_passant(board.pos, move, board.ep_square)
is_check(board) ==
    \E k \in king(board.pos, board.turn) : is_attacked_by(board.pos, ~board.turn, k)
is_checkmate(board) == is_check(board) /\ legal_moves(board) = {}
is_stalemate(board) == ~is_check(board) /\ legal_moves(board) = {}

\* chess.Board.has_insufficient_material(color)
has_insufficient_material(board, color) ==
    LET mine == {q \in DOMAIN board.pos : is_color(board, q, color)}
        theirs == {q \in DOMAIN board.pos : is_color(board, q, ~color)}
        types(S) == {piece_type(board.pos[q]) : q \in S}
        holds(q, T) == board.pos[q] # NoPiece /\ piece_type(board.pos[q]) \in T
    IN IF types(mine) \cap {"p", "r", "q"} # {} THEN FALSE
       ELSE IF "n" \in types(mine)
       THEN Cardinality(mine) <= 2 /\ types(theirs) \subseteq {"k", "q"}
       ELSE IF "b" \in types(mine)
       THEN LET bishops == {q \in DOMAIN board.pos : holds(q, {"b"})}
                shade(q) == (square_file(q) + square_rank(q)) % 2
                same == Cardinality({shade(q) : q \in bishops}) <= 1
            IN same /\ ~(\E q \in DOMAIN board.pos : holds(q, {"p", "n"}))
       ELSE TRUE
is_insufficient_material(board) ==
    has_insufficient_material(board, WHITE) /\ has_insufficient_material(board, BLACK)

\* chess.Board._is_halfmoves: n half-moves without a capture or a pawn move,
\* and a legal move
is_halfmoves(board, n) == board.halfmove_clock >= n /\ legal_moves(board) # {}
\* chess.Board.is_fifty_moves and is_seventyfive_moves
is_fifty_moves(board) == is_halfmoves(board, 100)
is_seventyfive_moves(board) == is_halfmoves(board, 150)

\* chess.Board.is_game_over(), no draw being claimed: checkmate, stalemate,
\* insufficient material, the seventy-five-move rule (the fivefold
\* repetition needs more moves than a game is followed for)
is_game_over(board) ==
    \/ is_checkmate(board)
    \/ is_stalemate(board)
    \/ is_insufficient_material(board)
    \/ is_seventyfive_moves(board)

\* chess.Board.push raises AssertionError when no piece stands on the source
\* square of move
push_raises(board, move) == board.pos[move.from_square] = NoPiece

\* the castling rights left after move: the rights of the rooks on its
\* two squares are lost, and both rights of a king that moves
castling_after(board, move) ==
    LET back == {q \in board.castling_rights :
                    square_rank(q) = (IF board.turn = WHITE THEN 0 ELSE 7)}
    IN (board.castling_rights \ {move.from_square, move.to_square})
       \ (IF piece_type(board.pos[move.from_square]) = "k" THEN back ELSE {})

\* the en passant square after move: the square a pawn passed in a double
\* step from its second rank
ep_after(board, move) ==
    IF /\ piece_type(board.pos[move.from_square]) = "p"
       /\ square_rank(move.from_square) = SecondRank(board.turn)
       /\ square_rank(move.to_square) = SecondRank(board.turn) + 2 * PawnDir(board.turn)
    THEN Some(square(square_file(move.from_square),
                     SecondRank(board.turn) + PawnDir(board.turn)))
    ELSE None

\* chess.Board.is_zeroing: a pawn moves or a piece is taken
is_zeroing(board, move) ==
    piece_type(board.pos[move.from_square]) = "p" \/ board.pos[move.to_square] # NoPiece

\* what chess.Board.push puts on its stack
saved(board) ==
    [pos |-> board.pos, turn |-> board.turn,
     castling_rights |-> board.castling_rights, ep_square |-> board.ep_square,
     halfmove_clock |-> board.halfmove_clock,
     fullmove_number |-> board.fullmove_number]

Pushed(board, move, placed, ep_square, legal) ==
    [pos |-> placed,
     turn |-> ~board.turn,
     legal |-> legal,
     castling_rights |-> castling_after(board, move),
     ep_square |-> ep_square,
     halfmove_clock |-> IF is_zeroing(board, move) THEN 0 ELSE board.halfmove_clock + 1,
     fullmove_number |-> board.fullmove_number + (IF board.turn = BLACK THEN 1 ELSE 0),
     move_stack |-> Append(board.move_stack, move),
     state_stack |-> Append(board.state_stack, saved(board))]

\* pop that brings back the placement and the turn only
pop_placement_only(board) ==
    LET n == Len(board.move_stack)
    IN [board EXCEPT !.pos = board.state_stack[n].pos,
                     !.turn = board.state_stack[n].turn,
                     !.legal = generate_legal_moves(board.state_stack[n].pos,
                                                    board.state_stack[n].turn,
                                                    board.state_stack[n].ep_square),
                     !.move_stack = SubSeq(board.move_stack, 1, n - 1),
                     !.state_stack = SubSeq(board.state_stack, 1, n - 1)]

\* chess.Board.push: no legality check; saves the state for pop, moves the
\* piece, updates the castling rights, the en passant square and the move
\* counters, and flips the turn
Listed(board, move, placed, ep_square) ==
    Pushed(board, move, placed, ep_square,
           generate_legal_moves(placed, ~board.turn, ep_square))
push(board, move) ==
    Listed(board, move, PlaceEp(board.pos, move, board.turn, board.ep_square),
           ep_after(board, move))

\* board.turn = color and chess.Board.push on a board that is only pushed
\* on again: the legal moves of the board it leaves are not worked out
push_on(board, color, move) ==
    Pushed([board EXCEPT !.turn = color], move,
           PlaceEp(board.pos, move, color, board.ep_square),
           ep_after([board EXCEPT !.turn = color], move), {})

\* chess.Board.pop: restores the state saved by the last push
pop(board) ==
    LET n == Len(board.move_stack)
    IN [pos |-> board.state_stack[n].pos,
        turn |-> board.state_stack[n].turn,
        legal |-> generate_legal_moves(board.state_stack[n].pos,
                                       board.state_stack[n].turn,
                                       board.state_stack[n].ep_square),
        castling_rights |-> board.state_stack[n].castling_rights,
        ep_square |-> board.state_stack[n].ep_square,
        halfmove_clock |-> board.state_stack[n].halfmove_clock,
        fullmove_number |-> board.state_stack[n].fullmove_number,
        move_stack |-> SubSeq(board.move_stack, 1, n - 1),
        state_stack |-> SubSeq(board.state_stack, 1, n - 1)]

\* the mark chess.Board.san adds for the board the move leaves
check_suffix(after) ==
    IF is_checkmate(after) THEN "#" ELSE IF is_check(after) THEN "+" ELSE ""

\* chess.Board.san once the board the move leaves is known
notation(board, move, after) ==
    LET pos == board.pos
        sym == pos[move.from_square]
        t == piece_type(sym)
        capture == is_capture(board, move)
        others == {m.from_square : m \in {m \in legal_moves(board) :
                       /\ m.to_square = move.to_square
                       /\ m.from_square # move.from_square
                       /\ pos[m.from_square] = sym}}
        fname == FILE_NAMES[square_file(move.from_square) + 1]
        rname == RANK_NAMES[square_rank(move.from_square) + 1]
        sameRank == \E o \in others : square_rank(o) = square_rank(move.from_square)
        sameFile == \E o \in others : square_file(o) = square_file(move.from_square)
        column == sameRank \/ ~sameFile
        row == sameFile
        lead == IF t = "p" THEN (IF capture THEN fname ELSE "")
                ELSE symbol(t, WHITE)
                     \o (IF others # {} /\ column THEN fname ELSE "")
                     \o (IF others # {} /\ row THEN rname ELSE "")
        promo == IF move.promotion # NoPromotion
                 THEN "=" \o symbol(move.promotion, WHITE) ELSE ""
        suffix == CHOOSE mark \in {check_suffix(pushed) : pushed \in {after}} : TRUE
    IN lead \o (IF capture THEN "x" ELSE "") \o square_name(move.to_square)
       \o promo \o suffix

\* chess.Board.san: the notation of move in the position before it
san(board, move) == notation(board, move, push(board, move))

\* chess.Board(fen), the fields of the FEN given one by one
FullBoard(pos, turn, castling_rights, ep_square, halfmove_clock, fullmove_number) ==
    [pos |-> pos, turn |-> turn, legal |-> generate_legal_moves(pos, turn, ep_square),
     castling_rights |-> castling_rights, ep_square |-> ep_square,
     halfmove_clock |-> halfmove_clock, fullmove_number |-> fullmove_number,
     move_stack |-> <<>>, state_stack |-> <<>>]

\* chess.Board(fen) for a FEN "... - - 0 1": no castling rights, no en
\* passant square, counters at their first values
Board(pos, turn) == FullBoard(pos, turn, {}, None, 0, 1)

\* a FEN, and the FEN "... - - 0 1" of a placement and a side to move
FullFen(pos, turn, castling_rights, ep_square, halfmove_clock, fullmove_number) ==
    [pos |-> pos, turn |-> turn, castling_rights |-> castling_rights,
     ep_square |-> ep_square, halfmove_clock |-> halfmove_clock,
     fullmove_number |-> fullmove_number]
Fen(pos, turn) == FullFen(pos, turn, {}, None, 0, 1)
BoardOf(fen) ==
    FullBoard(fen.pos, fen.turn, fen.castling_rights, fen.ep_square,
              fen.halfmove_clock, fen.fullmove_number)

Position(placed) ==
    [q \in Squares |-> IF q \in DOMAIN placed THEN placed[q] ELSE NoPiece]

\* the position every game starts from (chess.Board() / Board.reset())
StartPos ==
    Position((square(0, 5) :> "K") @@ (square(1, 5) :> "P")
             @@ (square(1, 7) :> "k"))
StartBoard == Board(StartPos, WHITE)

\* chess.parse_square
parse_square(name) == CHOOSE q \in SQUARES : SQUARE_NAMES[q] = name

\* chess.STARTING_FEN, the position of chess.Board() on the board of the
\* library
BackRank == <<"r", "n", "b", "q", "k", "b", "n", "r">>
STARTING_POS ==
    [q \in SQUARES |->
        CASE square_rank(q) = 0 -> symbol(BackRank[square_file(q) + 1], WHITE)
          [] square_rank(q) = 1 -> "P"
          [] square_rank(q) = 6 -> "p"
          [] square_rank(q) = 7 -> BackRank[square_file(q) + 1]
          [] OTHER -> NoPiece]
STARTING_FEN ==
    FullFen(STARTING_POS, WHITE,
            {parse_square("a1"), parse_square("h1"), parse_square("a8"), parse_square("h8")},
            None, 0, 1)

\* ------------------------------------------------------------------------
\* State
\* ------------------------------------------------------------------------
VARIABLES
    board_state,        \* the BoardState: board, move_history_uci, move_history_san
    input_handler,      \* the InputHandler's fields
    engine_controller,  \* the EngineController's fields: thinking, stop_thinking, move_queue
    workers,            \* the engine worker threads that have not finished yet
    move_history,       \* main(): the controller's list of UCI moves
    game_ended,         \* main(): game_ended
    running,            \* main(): the event loop is running (no handler has raised)
    HUMAN_COLOR,        \* Config.HUMAN_COLOR
    engine_ready,       \* engine_wrapper.is_engine_ready()
    clocks,             \* main(): white_clock and black_clock
    premove_log,        \* history: for each queued premove, the real position and
                        \* the queue it was appended to
    jumped,             \* history: a move before the last one was clicked in the
                        \* history panel since the game began
    call                \* history: the operation last performed, with its argument,
                        \* its result and the state it started from

vars == <<board_state, input_handler, engine_controller, workers, move_history,
          game_ended, running, HUMAN_COLOR, engine_ready, clocks, premove_log, jumped,
          call>>

\* ------------------------------------------------------------------------
\* BoardState (gui/board_state.py)
\* ------------------------------------------------------------------------
\* BoardState.__init__
BoardState(fen) ==
    [board |-> BoardOf(fen),
     move_history_uci |-> <<>>,
     move_history_san |-> <<>>]
\* BoardState(): the game starts from the starting position
NewBoardState == BoardState(Fen(StartPos, WHITE))

\* BoardState.get_fen: the fields of chess.Board.fen(); the en passant
\* square is written only when a capture en passant is legal
has_legal_en_passant(board) ==
    \E m \in legal_moves(board) : is_en_passant(board.pos, m, board.ep_square)
get_fen(bs) ==
    [pos |-> bs.board.pos, turn |-> bs.board.turn,
     castling_rights |-> bs.board.castling_rights,
     ep_square |-> IF has_legal_en_passant(bs.board) THEN bs.board.ep_square ELSE None,
     halfmove_clock |-> bs.board.halfmove_clock,
     fullmove_number |-> bs.board.fullmove_number]

\* make_move without its legality test
make_move_unchecked(bs, move) ==
    IF move = NullMove \/ push_raises(bs.board, move)
    THEN [bs |-> bs, ret |-> FALSE]
    ELSE [bs |-> [board |-> push(bs.board, move),
                  move_history_uci |-> Append(bs.move_history_uci, uci(move)),
                  move_history_san |-> Append(bs.move_history_san, san(bs.board, move))],
          ret |-> TRUE]

\* make_move that records the move in the SAN history only
make_move_san_only(bs, move) ==
    IF move \notin legal_moves(bs.board)
    THEN [bs |-> bs, ret |-> FALSE]
    ELSE [bs |-> [board |-> push(bs.board, move),
                  move_history_uci |-> bs.move_history_uci,
                  move_history_san |-> Append(bs.move_history_san, san(bs.board, move))],
          ret |-> TRUE]

\* BoardState.make_move: [bs: the state afterwards, ret: the value returned]
make_move(bs, move) ==
    IF move \notin legal_moves(bs.board)
    THEN [bs |-> bs, ret |-> FALSE]
    ELSE CHOOSE res \in
             {[bs |-> [board |-> after,
                       move_history_uci |-> Append(bs.move_history_uci, uci(move)),
                       move_history_san |-> Append(bs.move_history_san,
                                                   notation(bs.board, move, after))],
               ret |-> TRUE] : after \in {push(bs.board, move)}} : TRUE

\* BoardState.make_move_uci
make_move_uci(bs, s) ==
    LET move == from_uci(s)
    IN IF move = ValueError THEN [bs |-> bs, ret |-> FALSE]
       ELSE make_move(bs, move)

\* make_move_from_squares that completes a pawn's move to the last rank with
\* a queen when no piece is named
make_move_from_squares_queen(bs, from_sq, to_sq, promotion) ==
    LET piece == IF from_sq \in Squares THEN piece_at(bs.board, from_sq) ELSE NoPiece
        last == /\ piece # NoPiece
                /\ piece_type(piece) = "p"
                /\ square_rank(to_sq) = PromotionRank(color_of(piece))
    IN make_move(bs, Move(from_sq, to_sq,
                          IF promotion = NoPromotion /\ last THEN "q" ELSE promotion))

\* BoardState.make_move_from_squares
make_move_from_squares(bs, from_sq, to_sq, promotion) ==
    make_move(bs, Move(from_sq, to_sq, promotion))

\* undo_move that takes the last move off the stack but restores nothing else
undo_move_stack_only(bs) ==
    IF bs.board.move_stack = <<>>
    THEN [bs |-> bs, ret |-> None]
    ELSE LET n == Len(bs.board.move_stack)
         IN [bs |-> [bs EXCEPT !.board.move_stack = SubSeq(@, 1, n - 1),
                               !.board.state_stack = SubSeq(@, 1, n - 1)],
             ret |-> Some(bs.board.move_stack[n])]

\* BoardState.undo_move: ret is Some(move) or None
undo_move(bs) ==
    IF bs.board.move_stack = <<>>
    THEN [bs |-> bs, ret |-> None]
    ELSE LET move == bs.board.move_stack[Len(bs.board.move_stack)]
             front(h) == IF h # <<>> THEN SubSeq(h, 1, Len(h) - 1) ELSE h
         IN [bs |-> [board |-> pop(bs.board),
                     move_history_uci |-> front(bs.move_history_uci),
                     move_history_san |-> front(bs.move_history_san)],
             ret |-> Some(move)]

\* BoardState.undo_two_moves
undo_two_moves(bs) ==
    LET first == undo_move(bs)
        second == undo_move(first.bs)
    IN [bs |-> second.bs, ret |-> <<first.ret, second.ret>>]

\* BoardState.can_claim_fifty_moves (chess.Board.can_claim_fifty_moves): the
\* fifty moves are complete, or a legal move that is no capture and no pawn
\* move completes them
can_claim_fifty_moves(bs) ==
    \/ is_fifty_moves(bs.board)
    \/ /\ bs.board.halfmove_clock >= 99
       /\ \E m \in legal_moves(bs.board) :
              ~is_zeroing(bs.board, m) /\ is_fifty_moves(push(bs.board, m))

\* BoardState.can_claim_threefold_repetition: a repetition needs more moves
\* than a game is followed for
can_claim_threefold_repetition(bs) == FALSE

\* BoardState.get_turn_string
get_turn_string(bs) == IF bs.board.turn = WHITE THEN "White" ELSE "Black"

\* BoardState.get_game_result: Some("1-0"), Some("0-1"), Some("1/2-1/2") or None
get_game_result(bs) ==
    IF ~is_game_over(bs.board) THEN None
    ELSE IF is_checkmate(bs.board)
    THEN Some(IF bs.board.turn = WHITE THEN "0-1" ELSE "1-0")
    ELSE Some("1/2-1/2")

\* BoardState.get_game_status: the pieces of the text it formats
get_game_status(bs) ==
    IF is_checkmate(bs.board)
    THEN <<"Checkmate! ", IF bs.board.turn = WHITE THEN "Black" ELSE "White", " wins">>
    ELSE IF is_stalemate(bs.board) THEN <<"Stalemate - Draw">>
    ELSE IF is_insufficient_material(bs.board) THEN <<"Draw - Insufficient material">>
    ELSE IF can_claim_fifty_moves(bs) THEN <<"Draw claimable - 50 move rule">>
    ELSE IF can_claim_threefold_repetition(bs) THEN <<"Draw claimable - Threefold repetition">>
    ELSE IF is_check(bs.board) THEN <<get_turn_string(bs), " is in check">>
    ELSE <<get_turn_string(bs), " to move">>

\* BoardState.is_promotion_move
is_promotion_move(bs, from_sq, to_sq) ==
    LET piece == piece_at(bs.board, from_sq)
    IN IF piece = NoPiece \/ piece_type(piece) # "p" THEN FALSE
       ELSE \/ color_of(piece) = WHITE /\ square_rank(to_sq) = 7
            \/ color_of(piece) = BLACK /\ square_rank(to_sq) = 0

\* BoardState.reset
reset(bs) ==
    [board |-> StartBoard, move_history_uci |-> <<>>, move_history_san |-> <<>>]

\* BoardState.set_fen
set_fen(bs, fen) ==
    [board |-> BoardOf(fen), move_history_uci |-> <<>>, move_history_san |-> <<>>]

\* A PGN text: NoGame (a text in which chess.pgn.read_game finds no game), or
\* the headers of the Seven Tag Roster and the movetext, a sequence of SAN
\* tokens; the text ends with the value of Result
NoGame == [pgn |-> "no game"]
Pgn(event, site, date, round, white, black, result, movetext) ==
    [Event |-> event, Site |-> site, Date |-> date, Round |-> round,
     White |-> white, Black |-> black, Result |-> result, movetext |-> movetext]

\* chess.Board.parse_san: the legal move that token denotes, or ValueError
parse_san(board, token) ==
    LET denoted == {m \in legal_moves(board) : san(board, m) = token}
    IN IF denoted = {} THEN ValueError ELSE CHOOSE m \in denoted : TRUE

\* chess.pgn.read_game on the movetext: the tokens are parsed on a board of
\* their own; a token that denotes no legal move is recorded in the errors
\* of the game and the rest of the line is skipped, nothing is raised
RECURSIVE parsed(_, _)
parsed(board, tokens) ==
    IF tokens = <<>> THEN [mainline_moves |-> <<>>, errors |-> <<>>]
    ELSE IF parse_san(board, Head(tokens)) = ValueError
    THEN [mainline_moves |-> <<>>, errors |-> <<Head(tokens)>>]
    ELSE LET move == parse_san(board, Head(tokens))
             rest == parsed(push(board, move), Tail(tokens))
         IN [mainline_moves |-> <<move>> \o rest.mainline_moves,
             errors |-> rest.errors]

\* chess.pgn.read_game: None, or the game read
read_game(pgn_string) ==
    IF pgn_string = NoGame THEN None
    ELSE Some([headers |-> [pgn_string EXCEPT !.movetext = <<>>],
               mainline_moves |-> parsed(StartBoard, pgn_string.movetext).mainline_moves,
               errors |-> parsed(StartBoard, pgn_string.movetext).errors])

\* BoardState.from_pgn: a new BoardState, each move of the main line handed
\* to make_move (whose result is not looked at); ValueError when read_game
\* finds no game
RECURSIVE replayed(_, _)
replayed(bs, mainline_moves) ==
    IF mainline_moves = <<>> THEN bs
    ELSE CHOOSE loaded \in {replayed(made, Tail(mainline_moves)) :
                                made \in {make_move(bs, Head(mainline_moves)).bs}} : TRUE

from_pgn(pgn_string) ==
    IF read_game(pgn_string) = None THEN ValueError
    ELSE replayed(NewBoardState,
                  Val(read_game(pgn_string)).mainline_moves)

\* str(game) of a chess.pgn.Game built by add_variation: the notation of
\* each move in the position the moves before it lead to from the start
RECURSIVE exported(_, _)
exported(board, moves) ==
    IF moves = <<>> THEN <<>>
    ELSE <<san(board, Head(moves))>> \o exported(push(board, Head(moves)), Tail(moves))

\* BoardState.to_pgn with its default arguments: a new chess.pgn.Game (all
\* headers "?", Date "????.??.??", Result "*") whose Event, White, Black and
\* Result are set, and the moves of the move stack
result_header(bs) ==
    IF get_game_result(bs) # None THEN Val(get_game_result(bs)) ELSE "*"
to_pgn(bs) ==
    Pgn("Casual Game", "?", "????.??.??", "?", "Human", "Engine", result_header(bs),
        exported(StartBoard, bs.board.move_stack))

\* BoardState.copy: a BoardState made from the FEN, with copies of the two
\* histories
copy(bs) ==
    [BoardState(get_fen(bs)) EXCEPT !.move_history_uci = bs.move_history_uci,
                                    !.move_history_san = bs.move_history_san]

\* BoardState.get_legal_moves_from_square
get_legal_moves_from_square(bs, sq) == {m \in legal_moves(bs.board) : m.from_square = sq}

\* the destinations that do not lie behind the square, seen from the side
\* to move
get_legal_destinations_advancing(bs, sq) ==
    {m.to_square : m \in {m \in get_legal_moves_from_square(bs, sq) :
        (square_rank(m.to_square) - square_rank(sq)) * PawnDir(bs.board.turn) >= 0}}

\* BoardState.get_legal_destinations_from_square
get_legal_destinations_from_square(bs, sq) ==
    {m.to_square : m \in get_legal_moves_from_square(bs, sq)}

\* BoardState.get_move_history_uci
get_move_history_uci(bs) == bs.move_history_uci

\* ------------------------------------------------------------------------
\* InputHandler (gui/input_handler.py)
\* ------------------------------------------------------------------------
\* Config.ENABLE_PREMOVE as the settings menu sets it when premoves are on
ENABLE_PREMOVE == TRUE

Colors == {"white", "black"}
\* the answer given to ColorSelectionDialog.show in the games explored: the
\* human side plays Black, the engine opens every game
ColorAnswers == {"black"}
\* chess.WHITE if Config.HUMAN_COLOR == "white" else chess.BLACK
human_color(hc) == IF hc = "white" THEN WHITE ELSE BLACK

\* pointer positions: the centre of a sq of the board, or a point off
\* the board
OffBoard == -1
Positions == Squares \cup {OffBoard}
\* BoardGUI.coords_to_square
coords_to_square(pos) == IF pos \in Squares THEN Some(pos) ELSE None
\* handle_mouse_motion: the pointer is more than 5 pixels away from where it
\* went down (two positions are either the same point or squares apart)
beyond_threshold(pos, start) == pos # start

\* drag_pos is read by the rendering alone: the model keeps whether a
\* position is recorded, not which
Pointer == "pointer"

\* the answers of PromotionDialog.show: a piece type, or None when closed
PromotionAnswers == {Some(p) : p \in PromotionSymbols} \cup {None}

\* InputHandler.__init__
InputHandler ==
    [selected_square |-> None,
     selected_piece |-> NoPiece,
     legal_moves_from_selected |-> {},
     dragging |-> FALSE,
     drag_piece |-> NoPiece,
     drag_start_square |-> None,
     drag_pos |-> None,
     drag_start_pos |-> None,
     mouse_moved |-> FALSE,
     last_move_method |-> None,
     premove_queue |-> <<>>,
     is_premove_mode |-> FALSE]

\* the value handlers return: the handler's fields and the BoardState
\* afterwards, the value returned, and whether an exception escaped
Return(ih, bs, ret) == [ih |-> ih, bs |-> bs, ret |-> ret, raised |-> FALSE]
Raise(ih, bs) == [ih |-> ih, bs |-> bs, ret |-> FALSE, raised |-> TRUE]

\* a handler that returns what BoardState.make_move returned
Made(ih, res) == Return(ih, res.bs, res.ret)

moves_from(board, sq) == {m \in legal_moves(board) : m.from_square = sq}

\* InputHandler._deselect
_deselect(ih) ==
    [ih EXCEPT !.selected_square = None,
               !.selected_piece = NoPiece,
               !.legal_moves_from_selected = {},
               !.is_premove_mode = FALSE]

\* InputHandler._clear_premove
_clear_premove(ih) ==
    [ih EXCEPT !.premove_queue = <<>>, !.is_premove_mode = FALSE]

\* the drag fields every exit of handle_mouse_up clears
drop_drag(ih) ==
    [ih EXCEPT !.drag_piece = NoPiece, !.drag_start_square = None, !.drag_start_pos = None]

\* the exit of handle_mouse_up after _try_make_move: the drag fields are
\* cleared and its result is returned
Dropped(res) == Return(drop_drag(res.ih), res.bs, res.ret)

\* the loop of build_visual_board: each queued move is pushed with the turn
\* forced to the human's side; the loop stops at the first push that raises.
\* (The board it leaves after a push has the other side to move: its pieces
\* are looked at, and its legal moves are asked for only after the turn is
\* set to the human's side again, which works them out.)
RECURSIVE push_queue(_, _, _)
push_queue(temp, queue, color) ==
    IF queue = <<>> THEN temp
    ELSE IF push_raises(temp, Head(queue)) THEN with_turn(temp, color)
    ELSE push_queue(push_on(temp, color, Head(queue)), Tail(queue), color)

\* InputHandler.build_visual_board
build_visual_board(ih, bs, hc) ==
    push_queue(bs.board, ih.premove_queue, human_color(hc))

\* _get_premove_logic_board raises when a push of its loop raises
RECURSIVE push_queue_raises(_, _, _)
push_queue_raises(temp, queue, color) ==
    /\ queue # <<>>
    /\ \/ push_raises(temp, Head(queue))
       \/ push_queue_raises(push_on(temp, color, Head(queue)), Tail(queue), color)

\* the logic board that forgets the queued premoves
_get_premove_logic_board_real(ih, bs, hc) ==
    with_turn(bs.board, human_color(hc))

\* InputHandler._get_premove_logic_board (when it does not raise)
_get_premove_logic_board(ih, bs, hc) ==
    CHOOSE logic_board \in
        {with_turn(temp, human_color(hc)) :
            temp \in {push_queue(bs.board, ih.premove_queue, human_color(hc))}} : TRUE

\* a pawn of from_piece's colour arriving on to_square promotes
reaches_last_rank(from_piece, to_square) ==
    /\ from_piece # NoPiece
    /\ piece_type(from_piece) = "p"
    /\ square_rank(to_square) = PromotionRank(color_of(from_piece))

\* _handle_premove_click that plays the queued move on the real board too
RECURSIVE _handle_premove_click_played(_, _, _, _, _)
_handle_premove_click_played(ih, bs, sq, hc, answer) ==
    LET visual_board == build_visual_board(ih, bs, hc)
        piece == piece_at(visual_board, sq)
        own == piece # NoPiece /\ color_of(piece) = human_color(hc)
    IN IF ih.selected_square = None
       THEN IF ~own
            THEN Return(ih, bs, FALSE)
            ELSE Return([ih EXCEPT !.selected_square = Some(sq),
                                   !.selected_piece = piece,
                                   !.is_premove_mode = TRUE,
                                   !.legal_moves_from_selected =
                                       moves_from(with_turn(visual_board, human_color(hc)),
                                                  sq)],
                        bs, FALSE)
       ELSE IF own
       THEN _handle_premove_click_played(_deselect(ih), bs, sq, hc, answer)
       ELSE LET shown == reaches_last_rank(ih.selected_piece, sq)
                promotion == IF shown /\ answer # None THEN Val(answer) ELSE NoPromotion
                move == Move(Val(ih.selected_square), sq, promotion)
            IN IF shown /\ answer = None
               THEN Return(_deselect(ih), bs, FALSE)
               ELSE IF move \notin legal_moves(with_turn(visual_board, human_color(hc)))
               THEN Return(_deselect(ih), bs, FALSE)
               ELSE Return(_deselect([ih EXCEPT !.premove_queue = Append(@, move)]),
                           [bs EXCEPT !.board = push(with_turn(visual_board, human_color(hc)), move)],
                           FALSE)

\* _handle_premove_click that queues the move without testing it
RECURSIVE _handle_premove_click_unchecked(_, _, _, _, _)
_handle_premove_click_unchecked(ih, bs, sq, hc, answer) ==
    LET visual_board == build_visual_board(ih, bs, hc)
        piece == piece_at(visual_board, sq)
        own == piece # NoPiece /\ color_of(piece) = human_color(hc)
    IN IF ih.selected_square = None
       THEN IF ~own
            THEN Return(ih, bs, FALSE)
            ELSE Return([ih EXCEPT !.selected_square = Some(sq),
                                   !.selected_piece = piece,
                                   !.is_premove_mode = TRUE,
                                   !.legal_moves_from_selected =
                                       moves_from(with_turn(visual_board, human_color(hc)),
                                                  sq)],
                        bs, FALSE)
       ELSE IF own
       THEN _handle_premove_click_unchecked(_deselect(ih), bs, sq, hc, answer)
       ELSE LET shown == reaches_last_rank(ih.selected_piece, sq)
                promotion == IF shown /\ answer # None THEN Val(answer) ELSE NoPromotion
                move == Move(Val(ih.selected_square), sq, promotion)
            IN IF shown /\ answer = None
               THEN Return(_deselect(ih), bs, FALSE)
               ELSE Return(_deselect([ih EXCEPT !.premove_queue = Append(@, move)]),
                           bs, FALSE)

\* InputHandler._handle_premove_click, from the visual board it built
RECURSIVE _handle_premove_click(_, _, _, _, _)
_premove_click_on(visual_board, ih, bs, sq, hc, answer) ==
    LET piece == piece_at(visual_board, sq)
        own == piece # NoPiece /\ color_of(piece) = human_color(hc)
    IN IF ih.selected_square = None
       THEN IF ~own
            THEN Return(ih, bs, FALSE)
            ELSE Return([ih EXCEPT !.selected_square = Some(sq),
                                   !.selected_piece = piece,
                                   !.is_premove_mode = TRUE,
                                   !.legal_moves_from_selected =
                                       moves_from(with_turn(visual_board, human_color(hc)),
                                                  sq)],
                        bs, FALSE)
       ELSE IF own
       THEN _handle_premove_click(_deselect(ih), bs, sq, hc, answer)
       ELSE LET shown == reaches_last_rank(ih.selected_piece, sq)
                promotion == IF shown /\ answer # None THEN Val(answer) ELSE NoPromotion
                move == Move(Val(ih.selected_square), sq, promotion)
            IN IF shown /\ answer = None
               THEN Return(_deselect(ih), bs, FALSE)
               ELSE IF move \notin legal_moves(with_turn(visual_board, human_color(hc)))
               THEN Return(_deselect(ih), bs, FALSE)
               ELSE Return(_deselect([ih EXCEPT !.premove_queue = Append(@, move)]),
                           bs, FALSE)

\* InputHandler._handle_premove_click
_handle_premove_click(ih, bs, sq, hc, answer) ==
    CHOOSE res \in {_premove_click_on(visual_board, ih, bs, sq, hc, answer) :
                       visual_board \in {build_visual_board(ih, bs, hc)}} : TRUE

\* InputHandler._handle_selection
_handle_selection(ih, bs, sq, piece) ==
    IF piece = NoPiece THEN Return(ih, bs, FALSE)
    ELSE IF color_of(piece) # bs.board.turn THEN Return(ih, bs, FALSE)
    ELSE Return([ih EXCEPT !.selected_square = Some(sq),
                           !.selected_piece = piece,
                           !.is_premove_mode = FALSE,
                           !.legal_moves_from_selected = moves_from(bs.board, sq)],
                bs, FALSE)

\* InputHandler._is_promotion_move
_is_promotion_move(bs, move) ==
    LET piece == piece_at(bs.board, move.from_square)
    IN IF piece = NoPiece \/ piece_type(piece) # "p" THEN FALSE
       ELSE IF color_of(piece) = WHITE THEN square_rank(move.to_square) = 7
       ELSE square_rank(move.to_square) = 0

\* _try_make_move that keeps the selection when the move is illegal
_try_make_move_keeps_selection(ih, bs, to_square, answer) ==
    IF ih.selected_square = None THEN Return(ih, bs, FALSE)
    ELSE LET plain == Move(Val(ih.selected_square), to_square, NoPromotion)
             shown == _is_promotion_move(bs, plain)
             move == IF shown /\ answer # None
                     THEN Move(Val(ih.selected_square), to_square, Val(answer))
                     ELSE plain
         IN IF shown /\ answer = None THEN Return(_deselect(ih), bs, FALSE)
            ELSE IF move \notin legal_moves(bs.board) THEN Return(ih, bs, FALSE)
            ELSE Made(_deselect(ih), make_move(bs, move))

\* InputHandler._try_make_move
_try_make_move(ih, bs, to_square, answer) ==
    IF ih.selected_square = None THEN Return(ih, bs, FALSE)
    ELSE LET plain == Move(Val(ih.selected_square), to_square, NoPromotion)
             shown == _is_promotion_move(bs, plain)
             move == IF shown /\ answer # None
                     THEN Move(Val(ih.selected_square), to_square, Val(answer))
                     ELSE plain
         IN IF shown /\ answer = None THEN Return(_deselect(ih), bs, FALSE)
            ELSE IF move \notin legal_moves(bs.board) THEN Return(_deselect(ih), bs, FALSE)
            ELSE Made(_deselect(ih), make_move(bs, move))

\* InputHandler._handle_move_or_reselect
_handle_move_or_reselect(ih, bs, sq, piece, answer) ==
    IF Some(sq) = ih.selected_square THEN Return(_deselect(ih), bs, FALSE)
    ELSE IF piece # NoPiece /\ color_of(piece) = bs.board.turn
    THEN _handle_selection(_deselect(ih), bs, sq, piece)
    ELSE _try_make_move([ih EXCEPT !.last_move_method = Some("click")], bs, sq, answer)

\* handle_mouse_click that keeps the queue when the click is off the board
handle_mouse_click_keeps_queue(ih, bs, pos, engine_thinking, hc, answer) ==
    LET sq == coords_to_square(pos)
    IN IF sq = None
       THEN Return(_deselect(ih), bs, FALSE)
       ELSE LET piece == piece_at(bs.board, Val(sq))
            IN IF ENABLE_PREMOVE /\ engine_thinking
               THEN _handle_premove_click(ih, bs, Val(sq), hc, answer)
               ELSE IF ih.selected_square = None
               THEN _handle_selection(ih, bs, Val(sq), piece)
               ELSE _handle_move_or_reselect(ih, bs, Val(sq), piece, answer)

\* InputHandler.handle_mouse_click
handle_mouse_click(ih, bs, pos, engine_thinking, hc, answer) ==
    LET sq == coords_to_square(pos)
    IN IF sq = None
       THEN Return(_clear_premove(_deselect(ih)), bs, FALSE)
       ELSE LET piece == piece_at(bs.board, Val(sq))
            IN IF ENABLE_PREMOVE /\ engine_thinking
               THEN _handle_premove_click(ih, bs, Val(sq), hc, answer)
               ELSE IF ih.selected_square = None
               THEN _handle_selection(ih, bs, Val(sq), piece)
               ELSE _handle_move_or_reselect(ih, bs, Val(sq), piece, answer)

\* execute_next_premove_if_valid that drops only the head it could not play
execute_next_premove_drop_head(ih, bs) ==
    IF ih.premove_queue = <<>> THEN Return(ih, bs, FALSE)
    ELSE LET res == make_move(bs, Head(ih.premove_queue))
         IN IF res.ret
            THEN Return(_deselect([ih EXCEPT !.last_move_method = Some("click"),
                                             !.premove_queue = Tail(@)]),
                        res.bs, TRUE)
            ELSE Return(_deselect([ih EXCEPT !.premove_queue = Tail(@)]), bs, FALSE)

\* execute_next_premove_if_valid once make_move has returned res for the
\* head of the queue
_premove_played(ih, bs, move, res) ==
    IF move \in legal_moves(bs.board) /\ res.ret
    THEN Return(_deselect([ih EXCEPT !.last_move_method = Some("click"),
                                     !.premove_queue = Tail(@)]),
                res.bs, TRUE)
    ELSE Return(_deselect([ih EXCEPT !.premove_queue = <<>>]), bs, FALSE)

\* InputHandler.execute_next_premove_if_valid
execute_next_premove_if_valid(ih, bs) ==
    IF ih.premove_queue = <<>> THEN Return(ih, bs, FALSE)
    ELSE _premove_played(ih, bs, Head(ih.premove_queue),
                         make_move(bs, Head(ih.premove_queue)))

\* InputHandler.has_premove
has_premove(ih) == Len(ih.premove_queue) > 0

\* handle_mouse_down that records a drag start on any square of the board
handle_mouse_down_any(ih, bs, pos, engine_thinking, hc) ==
    LET sq == coords_to_square(pos)
    IN IF sq = None THEN ih
       ELSE [ih EXCEPT !.drag_start_square = sq,
                       !.drag_piece = piece_at(bs.board, Val(sq)),
                       !.drag_start_pos = Some(pos),
                       !.mouse_moved = FALSE]

\* handle_mouse_down once the piece on the square is known: a piece of
\* color is held for a drag that may start
_grab(ih, sq, pos, piece, color) ==
    IF piece # NoPiece /\ color_of(piece) = color
    THEN [ih EXCEPT !.drag_start_square = sq,
                    !.drag_piece = piece,
                    !.drag_start_pos = Some(pos),
                    !.mouse_moved = FALSE]
    ELSE ih

\* InputHandler.handle_mouse_down
handle_mouse_down(ih, bs, pos, engine_thinking, hc) ==
    LET sq == coords_to_square(pos)
    IN IF sq = None THEN ih
       ELSE IF engine_thinking
       THEN IF ~ENABLE_PREMOVE THEN ih
            ELSE CHOOSE held \in
                     {_grab(ih, sq, pos, piece, human_color(hc)) :
                         piece \in {piece_at(build_visual_board(ih, bs, hc), Val(sq))}} : TRUE
       ELSE _grab(ih, sq, pos, piece_at(bs.board, Val(sq)), bs.board.turn)

\* the premove branch of handle_mouse_up, from the logic board it built: the
\* dragged piece must be the human's, a promotion asks for the piece, and the
\* move is queued when it is legal on the logic board
_queue_dragged_premove(released, bs, logic_board, from_square, to_square, hc, answer) ==
    LET from_piece == piece_at(logic_board, from_square)
        shown == reaches_last_rank(from_piece, to_square)
        promotion == IF shown /\ answer # None THEN Val(answer) ELSE NoPromotion
        move == Move(from_square, to_square, promotion)
    IN IF from_piece = NoPiece \/ color_of(from_piece) # human_color(hc)
       THEN Return(_deselect(drop_drag(released)), bs, FALSE)
       ELSE IF shown /\ answer = None
       THEN Return(drop_drag(_deselect(released)), bs, FALSE)
       ELSE IF move \notin legal_moves(logic_board)
       THEN Return(drop_drag(_deselect(released)), bs, FALSE)
       ELSE Return(_deselect(drop_drag([released EXCEPT !.premove_queue = Append(@, move)])),
                   bs, TRUE)

\* handle_mouse_up that leaves the drag fields set when the piece is dropped
\* on the square it was lifted from
handle_mouse_up_keeps_drag(ih, bs, pos, engine_thinking, hc, answer) ==
    IF ih.dragging
    THEN LET to_square == coords_to_square(pos)
             released == [ih EXCEPT !.dragging = FALSE, !.drag_pos = None,
                                    !.mouse_moved = FALSE]
         IN IF to_square = None \/ ih.drag_start_square = None
            THEN Return(_deselect(drop_drag(released)), bs, FALSE)
            ELSE IF to_square = ih.drag_start_square
            THEN Return(released, bs, FALSE)
            ELSE IF engine_thinking /\ ENABLE_PREMOVE
            THEN IF push_queue_raises(bs.board, ih.premove_queue, human_color(hc))
                 THEN Raise(released, bs)
                 ELSE _queue_dragged_premove(released, bs,
                                             _get_premove_logic_board(released, bs, hc),
                                             Val(ih.drag_start_square), Val(to_square),
                                             hc, answer)
            ELSE Dropped(_try_make_move([released EXCEPT !.last_move_method = Some("drag")],
                                        bs, Val(to_square), answer))
    ELSE Return([drop_drag(ih) EXCEPT !.mouse_moved = FALSE], bs, FALSE)

\* InputHandler.handle_mouse_up
handle_mouse_up(ih, bs, pos, engine_thinking, hc, answer) ==
    IF ih.dragging
    THEN LET to_square == coords_to_square(pos)
             released == [ih EXCEPT !.dragging = FALSE, !.drag_pos = None,
                                    !.mouse_moved = FALSE]
         IN IF to_square = None \/ ih.drag_start_square = None
            THEN Return(_deselect(drop_drag(released)), bs, FALSE)
            ELSE IF to_square = ih.drag_start_square
            THEN Return(drop_drag(released), bs, FALSE)
            ELSE IF engine_thinking /\ ENABLE_PREMOVE
            THEN IF push_queue_raises(bs.board, ih.premove_queue, human_color(hc))
                 THEN Raise(released, bs)
                 ELSE CHOOSE res \in
                          {_queue_dragged_premove(released, bs, logic_board,
                                                  Val(ih.drag_start_square), Val(to_square),
                                                  hc, answer) :
                              logic_board \in {_get_premove_logic_board(released, bs, hc)}} :
                          TRUE
            ELSE Dropped(_try_make_move([released EXCEPT !.last_move_method = Some("drag")],
                                        bs, Val(to_square), answer))
    ELSE Return([drop_drag(ih) EXCEPT !.mouse_moved = FALSE], bs, FALSE)

\* InputHandler.handle_mouse_motion
handle_mouse_motion(ih, bs, pos, engine_thinking) ==
    LET starts == /\ ih.drag_start_pos # None
                  /\ ~ih.dragging
                  /\ beyond_threshold(pos, Val(ih.drag_start_pos))
        lifted == [ih EXCEPT !.dragging = TRUE, !.mouse_moved = TRUE,
                             !.drag_pos = Some(Pointer)]
        premove == engine_thinking /\ ENABLE_PREMOVE
        reference == IF premove THEN with_turn(bs.board, color_of(ih.drag_piece))
                     ELSE bs.board
        started ==
            IF ~starts THEN ih
            ELSE IF ih.drag_start_square # None /\ ih.drag_piece # NoPiece
            THEN [lifted EXCEPT !.selected_square = ih.drag_start_square,
                                !.selected_piece = ih.drag_piece,
                                !.is_premove_mode = premove,
                                !.legal_moves_from_selected =
                                    moves_from(reference, Val(ih.drag_start_square))]
            ELSE lifted
    IN IF started.dragging THEN [started EXCEPT !.drag_pos = Some(Pointer)] ELSE started

\* InputHandler.clear_move_method
clear_move_method(ih) == [ih EXCEPT !.last_move_method = None]

\* InputHandler.reset
input_handler_reset(ih) ==
    [_clear_premove(_deselect(ih)) EXCEPT
        !.dragging = FALSE, !.drag_piece = NoPiece, !.drag_start_square = None,
        !.drag_pos = None, !.drag_start_pos = None, !.mouse_moved = FALSE,
        !.last_move_method = None]

\* InputHandler.soft_reset
soft_reset(ih) ==
    [_deselect(ih) EXCEPT
        !.dragging = FALSE, !.drag_piece = NoPiece, !.drag_start_square = None,
        !.drag_pos = None, !.drag_start_pos = None, !.mouse_moved = FALSE,
        !.last_move_method = None]

\* ------------------------------------------------------------------------
\* EngineController (engine/engine_controller.py)
\* ------------------------------------------------------------------------
\* EngineController.__init__
EngineController == [thinking |-> FALSE, stop_thinking |-> FALSE, move_queue |-> <<>>]

\* a worker thread started by request_move: where it stands in
\* _engine_worker, the copies it was given, the value get_best_move
\* returned to it, and (history) whether cancel_thinking asked it to stop
\* before it delivered
Worker(board, history) ==
    [pc |-> "get_best_move",
     board |-> board,
     move_history |-> history,
     move_uci |-> None,
     cancelled |-> FALSE]

\* the live chess.Board of main()'s BoardState, passed by reference
LiveBoard == [ref |-> "board_state.board"]

\* the position a worker's board argument holds when it is read: the live
\* board's when the argument is the live object, the copy's otherwise
analysed(worker, live) == IF worker.board = LiveBoard THEN live ELSE worker.board

\* request_move that hands the worker the live board instead of a copy
request_move_shares_board(ec, ws, board, history, ready) ==
    IF ec.thinking THEN [ec |-> ec, workers |-> ws]
    ELSE IF ~ready THEN [ec |-> ec, workers |-> ws]
    ELSE [ec |-> [thinking |-> TRUE, stop_thinking |-> FALSE, move_queue |-> <<>>],
          workers |-> Append(ws, Worker(LiveBoard, history))]

\* EngineController.request_move, called without a callback: the worker is
\* given board.copy() and move_history.copy(), values of their own
request_move(ec, ws, board, history, ready) ==
    IF ec.thinking THEN [ec |-> ec, workers |-> ws]
    ELSE IF ~ready THEN [ec |-> ec, workers |-> ws]
    ELSE [ec |-> [thinking |-> TRUE, stop_thinking |-> FALSE, move_queue |-> <<>>],
          workers |-> Append(ws, Worker(board, history))]

\* EngineController.cancel_thinking; the workers that have not delivered yet
\* are marked as asked to stop
cancel_thinking(ec, ws) ==
    IF ec.thinking
    THEN [ec |-> [ec EXCEPT !.stop_thinking = TRUE, !.thinking = FALSE],
          workers |-> [i \in 1..Len(ws) |->
                          IF ws[i].pc \in {"get_best_move", "put"}
                          THEN [ws[i] EXCEPT !.cancelled = TRUE] ELSE ws[i]]]
    ELSE [ec |-> ec, workers |-> ws]

\* EngineController.is_thinking
is_thinking(ec) == ec.thinking

\* engine_wrapper.get_best_move: what a call may do, return the UCI string
\* of a legal move of the position or, when it has none, raise ValueError
get_best_move(board) ==
    IF legal_moves(board) = {} THEN {ValueError}
    ELSE {[returned |-> uci(m)] : m \in legal_moves(board)}

\* what the external engine module's get_best_move may do when it is called:
\* return a string, or raise
Raised == [raised |-> TRUE]
Returned(s) == [returned |-> s]

\* EngineWrapper._get_random_move: the values random.choice may pick, or
\* ValueError raised when the position has no legal move
_get_random_move(board) ==
    IF legal_moves(board) = {} THEN {ValueError}
    ELSE {Returned(uci(m)) : m \in legal_moves(board)}

\* EngineWrapper.get_best_move that hands on whatever the engine returned
EngineWrapper_get_best_move_unvalidated(model_loaded, answer, board) ==
    IF ~model_loaded THEN _get_random_move(board)
    ELSE IF answer = Raised THEN _get_random_move(board)
    ELSE {answer}

\* EngineWrapper.get_best_move, the external engine doing answer: the values
\* it may return (ValueError: the exception leaves the method)
EngineWrapper_get_best_move(model_loaded, answer, board) ==
    IF ~model_loaded THEN _get_random_move(board)
    ELSE IF answer = Raised THEN _get_random_move(board)
    ELSE LET move == from_uci(answer.returned)
         IN IF move = ValueError THEN _get_random_move(board)
            ELSE IF move \in legal_moves(board) THEN {answer}
            ELSE _get_random_move(board)

Remove(ws, i) == SubSeq(ws, 1, i - 1) \o SubSeq(ws, i + 1, Len(ws))

\* ------------------------------------------------------------------------
\* PlayerClock (gui/player_clock.py).  Time is counted in units; a clock
\* keeps in since_update the time that has passed since last_update_time
\* (time.time() - last_update_time), None while last_update_time is None
\* ------------------------------------------------------------------------
\* PlayerClock.__init__
PlayerClock(time_control) ==
    [time_control |-> time_control,
     time_remaining |-> time_control,
     is_active |-> FALSE,
     since_update |-> None,
     paused |-> TRUE]

\* PlayerClock.update
update(clock) ==
    IF clock.paused \/ ~clock.is_active \/ clock.time_remaining = None THEN clock
    ELSE IF clock.since_update = None THEN [clock EXCEPT !.since_update = Some(0)]
    ELSE [clock EXCEPT
             !.since_update = Some(0),
             !.time_remaining =
                 Some(IF Val(@) - Val(clock.since_update) < 0 THEN 0
                      ELSE Val(@) - Val(clock.since_update))]

\* PlayerClock.start
start(clock) == [clock EXCEPT !.paused = FALSE, !.since_update = Some(0)]

\* PlayerClock.pause
pause(clock) == IF ~clock.paused THEN [update(clock) EXCEPT !.paused = TRUE] ELSE clock

\* PlayerClock.resume
resume(clock) ==
    IF clock.paused THEN [clock EXCEPT !.since_update = Some(0), !.paused = FALSE]
    ELSE clock

\* PlayerClock.activate
activate(clock) == [clock EXCEPT !.is_active = TRUE, !.since_update = Some(0)]

\* PlayerClock.deactivate
deactivate(clock) ==
    IF clock.is_active THEN [update(clock) EXCEPT !.is_active = FALSE] ELSE clock

\* PlayerClock.draw: the time is brought up to date unless the clock is paused
draw(clock) == IF ~clock.paused THEN update(clock) ELSE clock

\* PlayerClock.is_time_expired
is_time_expired(clock) ==
    IF clock.time_control = None THEN FALSE
    ELSE clock.time_remaining # None /\ Val(clock.time_remaining) <= 0

\* PlayerClock.reset
clock_reset(clock, time_control) ==
    LET kept == IF time_control # None THEN time_control ELSE clock.time_control
    IN [clock EXCEPT !.time_control = kept,
                     !.time_remaining = kept,
                     !.is_active = FALSE,
                     !.since_update = None,
                     !.paused = TRUE]

\* main(): the two clocks are started and White's clock is activated
start_clocks(cl) ==
    [white |-> resume(activate(start(cl.white))), black |-> start(cl.black)]

\* the clocks after a move when the clock of the side that moved is left as
\* it was
switch_clocks_one_sided(cl, turn) ==
    IF turn = WHITE
    THEN [cl EXCEPT !.white = resume(activate(@))]
    ELSE [cl EXCEPT !.black = resume(activate(@))]

\* main(), after a move was applied: the clock of the side to move is
\* activated and resumed, the other one is deactivated
switch_clocks(cl, turn) ==
    IF turn = WHITE
    THEN [white |-> resume(activate(cl.white)), black |-> deactivate(cl.black)]
    ELSE [white |-> deactivate(cl.white), black |-> resume(activate(cl.black))]

\* main(), when a game has ended: both clocks are paused
pause_clocks(cl) == [white |-> pause(cl.white), black |-> pause(cl.black)]

\* main(), at the end of a pass of the loop: both clocks are drawn
draw_clocks(cl) == [white |-> draw(cl.white), black |-> draw(cl.black)]

\* what the check for time expiration found: whether a clock had expired,
\* game_ended, the clocks and last_result afterwards
Checked(expired, ended, cl, last_result) ==
    [expired |-> expired, game_ended |-> ended, clocks |-> cl, last_result |-> last_result]

\* the check for time expiration that gives the game to the opponent
\* whatever material the opponent has
time_expiration_always_forfeit(bs, cl, ended) ==
    IF ended THEN Checked(FALSE, ended, cl, None)
    ELSE IF is_time_expired(cl.white)
    THEN Checked(TRUE, TRUE, pause_clocks(cl),
                 Some(<<"time_forfeit", "Black", "White ran out of time">>))
    ELSE IF is_time_expired(cl.black)
    THEN Checked(TRUE, TRUE, pause_clocks(cl),
                 Some(<<"time_forfeit", "White", "Black ran out of time">>))
    ELSE Checked(FALSE, ended, cl, None)

\* main(): the check for time expiration of a pass of the loop, up to the
\* result dialog
time_expiration(bs, cl, ended) ==
    IF ended THEN Checked(FALSE, ended, cl, None)
    ELSE IF is_time_expired(cl.white)
    THEN Checked(TRUE, TRUE, pause_clocks(cl),
                 IF has_insufficient_material(bs.board, BLACK)
                 THEN Some(<<"draw", "None", "insufficient material">>)
                 ELSE Some(<<"time_forfeit", "Black", "White ran out of time">>))
    ELSE IF is_time_expired(cl.black)
    THEN Checked(TRUE, TRUE, pause_clocks(cl),
                 IF has_insufficient_material(bs.board, WHITE)
                 THEN Some(<<"draw", "None", "insufficient material">>)
                 ELSE Some(<<"time_forfeit", "White", "Black ran out of time">>))
    ELSE Checked(FALSE, ended, cl, None)

\* start_new_game_with_dialogs: what it does to the clocks when the time
\* dialog answers new_time_control
new_game_clocks(cl, new_time_control) ==
    start_clocks([white |-> clock_reset(cl.white, new_time_control),
                  black |-> clock_reset(cl.black, new_time_control)])


\* ------------------------------------------------------------------------
\* The event loop (main.py)
\* ------------------------------------------------------------------------
\* the objects the event loop works on
World ==
    [board_state |-> board_state,
     input_handler |-> input_handler,
     engine_controller |-> engine_controller,
     workers |-> workers,
     move_history |-> move_history,
     game_ended |-> game_ended,
     running |-> running,
     HUMAN_COLOR |-> HUMAN_COLOR,
     clocks |-> clocks,
     jumped |-> jumped]

MaxHistory == MaxPly + 1

\* a game is followed for MaxPly moves
Followed == Len(board_state.board.move_stack) < MaxPly

\* the exploration stops where a bound would be passed
Bounded(g) ==
    /\ Followed
    /\ Len(g.board_state.board.move_stack) <= MaxPly
    /\ Len(g.input_handler.premove_queue) <= MaxQueue
    /\ Len(g.workers) <= MaxWorkers
    /\ Len(g.move_history) <= MaxHistory

\* the history of the queue: an entry is added with each appended premove
\* and dropped with each premove that leaves the queue
LogAfter(g) ==
    LET q0 == input_handler.premove_queue
        q1 == g.input_handler.premove_queue
    IN IF q1 = q0 THEN premove_log
       ELSE IF q1 = <<>> THEN <<>>
       ELSE IF Len(q1) = Len(q0) + 1
       THEN Append(premove_log, [real |-> get_fen(board_state), queued |-> q0,
                                 color |-> HUMAN_COLOR])
       ELSE Tail(premove_log)

\* the objects of the event loop after a handler has run
Becomes(g) ==
    /\ board_state' = g.board_state
    /\ input_handler' = g.input_handler
    /\ engine_controller' = g.engine_controller
    /\ workers' = g.workers
    /\ move_history' = g.move_history
    /\ game_ended' = g.game_ended
    /\ running' = g.running
    /\ HUMAN_COLOR' = g.HUMAN_COLOR
    /\ clocks' = g.clocks
    /\ premove_log' = LogAfter(g)
    /\ jumped' = g.jumped
    /\ UNCHANGED engine_ready

Commit(g) == Bounded(g) /\ Becomes(g)

Other == [op |-> "other"]

\* the tuple check_game_end_conditions returns
Result(is_over, result_type, winner, reason) ==
    [is_over |-> is_over, result_type |-> result_type, winner |-> winner, reason |-> reason]

\* check_game_end_conditions that names the side to move as the winner
check_game_end_conditions_mover_wins(bs) ==
    IF is_checkmate(bs.board)
    THEN Result(TRUE, Some("checkmate"),
                Some(IF bs.board.turn = BLACK THEN "Black" ELSE "White"), Some(""))
    ELSE IF is_stalemate(bs.board) THEN Result(TRUE, Some("stalemate"), None, Some(""))
    ELSE IF is_insufficient_material(bs.board)
    THEN Result(TRUE, Some("draw"), None, Some("insufficient material"))
    ELSE Result(FALSE, None, None, None)

\* check_game_end_conditions that tests the material before the stalemate
check_game_end_conditions_material_first(bs) ==
    IF is_checkmate(bs.board)
    THEN Result(TRUE, Some("checkmate"),
                Some(IF bs.board.turn = BLACK THEN "White" ELSE "Black"), Some(""))
    ELSE IF is_insufficient_material(bs.board)
    THEN Result(TRUE, Some("draw"), None, Some("insufficient material"))
    ELSE IF is_stalemate(bs.board) THEN Result(TRUE, Some("stalemate"), None, Some(""))
    ELSE Result(FALSE, None, None, None)

\* check_game_end_conditions
check_game_end_conditions(bs) ==
    IF is_checkmate(bs.board)
    THEN Result(TRUE, Some("checkmate"),
                Some(IF bs.board.turn = BLACK THEN "White" ELSE "Black"), Some(""))
    ELSE IF is_stalemate(bs.board) THEN Result(TRUE, Some("stalemate"), None, Some(""))
    ELSE IF is_insufficient_material(bs.board)
    THEN Result(TRUE, Some("draw"), None, Some("insufficient material"))
    ELSE IF can_claim_fifty_moves(bs) THEN Result(TRUE, Some("draw"), None, Some("50-move rule"))
    ELSE IF can_claim_threefold_repetition(bs)
    THEN Result(TRUE, Some("draw"), None, Some("threefold repetition"))
    ELSE Result(FALSE, None, None, None)

\* check_engine_turn_and_move
check_engine_turn_and_move(g) ==
    LET engine_color == IF g.HUMAN_COLOR = "white" THEN BLACK ELSE WHITE
    IN IF /\ g.board_state.board.turn = engine_color
          /\ ~is_thinking(g.engine_controller)
          /\ ~is_game_over(g.board_state.board)
       THEN LET r == request_move(g.engine_controller, g.workers, g.board_state.board,
                                  g.move_history, engine_ready)
            IN [g EXCEPT !.engine_controller = r.ec, !.workers = r.workers]
       ELSE g

\* start_new_game_with_dialogs, the time dialog answering Unlimited and the
\* colour dialog answering color
start_new_game_with_dialogs(g, color) ==
    LET r == cancel_thinking(g.engine_controller, g.workers)
    IN [g EXCEPT !.HUMAN_COLOR = color,
                 !.engine_controller = r.ec,
                 !.workers = r.workers,
                 !.board_state = reset(@),
                 !.input_handler = input_handler_reset(@),
                 !.move_history = <<>>,
                 !.clocks = new_game_clocks(@, None),
                 !.game_ended = FALSE,
                 !.jumped = FALSE]

\* the end of the handling of a move of the human side (live, or a drained
\* premove): the game-end check, the clocks paused and the result dialog
\* with its answers ("close", or "new_game" with a colour), otherwise the
\* engine's turn
Concluded(g) ==
    IF check_game_end_conditions(g.board_state).is_over
    THEN LET ended == [g EXCEPT !.game_ended = TRUE, !.clocks = pause_clocks(@)]
         IN {ended}
            \cup {check_engine_turn_and_move(start_new_game_with_dialogs(ended, c)) :
                  c \in ColorAnswers}
    ELSE {check_engine_turn_and_move(g)}

\* the controller's list gets the move on top of the board's stack, and the
\* clocks are switched
Recorded(g) ==
    IF g.board_state.board.move_stack # <<>>
    THEN [g EXCEPT !.move_history =
                       Append(@, uci(g.board_state.board.move_stack[
                                         Len(g.board_state.board.move_stack)])),
                   !.input_handler = clear_move_method(@),
                   !.clocks = switch_clocks(@, g.board_state.board.turn)]
    ELSE g

\* the test main() makes before it hands a pointer event to the handler
InputAllowed ==
    \/ board_state.board.turn = human_color(HUMAN_COLOR)
    \/ ENABLE_PREMOVE /\ is_thinking(engine_controller)

\* MOUSEBUTTONDOWN on the board or beside it (no button, no move of the
\* history panel under the pointer)
MouseButtonDown ==
    \E pos \in Positions :
        /\ running /\ ~game_ended /\ InputAllowed
        /\ \E ih \in {handle_mouse_down(input_handler, board_state, pos,
                                        is_thinking(engine_controller), HUMAN_COLOR)} :
               Commit([World EXCEPT !.input_handler = ih])
        /\ call' = Other

\* MOUSEMOTION
MouseMotion ==
    \E pos \in Positions :
        /\ running /\ ~game_ended /\ InputAllowed
        /\ \E ih \in {handle_mouse_motion(input_handler, board_state, pos,
                                          is_thinking(engine_controller))} :
               Commit([World EXCEPT !.input_handler = ih])
        /\ call' = Other

\* the promotion dialog can only open for a move to the first or last rank
AnswersAt(pos) ==
    IF pos \in Squares /\ square_rank(pos) \in {0, 7} THEN PromotionAnswers ELSE {None}

\* the promotion dialog can only open for a pawn that is held or selected
IH_Answers(pos) ==
    LET pawn(piece) == piece # NoPiece /\ piece_type(piece) = "p"
    IN IF pawn(input_handler.selected_piece) \/ pawn(input_handler.drag_piece)
       THEN AnswersAt(pos) ELSE {None}

\* MOUSEBUTTONUP: handle_mouse_up, then handle_mouse_click unless a move was
\* made, then the bookkeeping of a move
MouseButtonUp ==
    /\ running /\ ~game_ended /\ InputAllowed
    /\ \E pos \in Positions : \E answer \in IH_Answers(pos) :
       \E up \in {handle_mouse_up(input_handler, board_state, pos,
                                   is_thinking(engine_controller), HUMAN_COLOR, answer)} :
       \E res \in {IF up.raised \/ up.ret THEN up
                    ELSE handle_mouse_click(up.ih, up.bs, pos, is_thinking(engine_controller),
                                            HUMAN_COLOR, answer)} :
           LET g == [World EXCEPT !.input_handler = res.ih, !.board_state = res.bs]
               queued == Len(res.ih.premove_queue) > Len(input_handler.premove_queue)
           IN /\ IF res.raised THEN Commit([g EXCEPT !.running = FALSE])
                 ELSE IF res.ret
                 THEN \E moved \in {Recorded(g)} : \E done \in Concluded(moved) : Commit(done)
                 ELSE Commit(g)
              /\ call' = IF queued
                         THEN [op |-> "premove_entry",
                               arg |-> IF up.ret THEN "drag" ELSE "click",
                               before |-> board_state, color |-> HUMAN_COLOR]
                         ELSE Other

\* the "New Game" button (and the R key while the game has not ended)
NewGame ==
    \E color \in ColorAnswers :
        /\ running
        /\ \E g \in {check_engine_turn_and_move(start_new_game_with_dialogs(World, color))} :
               Commit(g)
        /\ call' = Other

\* the U key, handled also when the game has ended
Undo_after_end ==
    \E first \in {undo_move(board_state)} : \E second \in {undo_move(first.bs)} :
    LET popped(h, ret) == IF ret # None /\ h # <<>> THEN SubSeq(h, 1, Len(h) - 1) ELSE h
    IN /\ running
       /\ ~is_thinking(engine_controller)
       /\ Commit([World EXCEPT
                     !.board_state = second.bs,
                     !.move_history = popped(popped(@, first.ret), second.ret),
                     !.input_handler = input_handler_reset(@)])
       /\ call' = [op |-> "undo", before |-> board_state, history |-> move_history]

\* the U key
Undo ==
    \E first \in {undo_move(board_state)} : \E second \in {undo_move(first.bs)} :
    LET popped(h, ret) == IF ret # None /\ h # <<>> THEN SubSeq(h, 1, Len(h) - 1) ELSE h
    IN /\ running /\ ~game_ended
       /\ ~is_thinking(engine_controller)
       /\ Commit([World EXCEPT
                     !.board_state = second.bs,
                     !.move_history = popped(popped(@, first.ret), second.ret),
                     !.input_handler = input_handler_reset(@)])
       /\ call' = [op |-> "undo", before |-> board_state, history |-> move_history]

\* the engine move processing of one pass of the loop, when
\* get_move_if_ready finds something in the queue
ProcessEngineMove ==
    /\ running /\ ~game_ended
    /\ engine_controller.move_queue # <<>>
    /\ LET item == Head(engine_controller.move_queue)
           polled == [World EXCEPT !.engine_controller.move_queue = Tail(@)]
           move == IF item.move_uci = None THEN ValueError ELSE from_uci(Val(item.move_uci))
       IN \E made \in {IF move = ValueError THEN [bs |-> board_state, ret |-> FALSE]
                        ELSE make_move(board_state, move)} :
          \E moved \in {[polled EXCEPT !.board_state = made.bs,
                                       !.move_history =
                                           IF made.ret THEN Append(@, Val(item.move_uci)) ELSE @,
                                       !.clocks = switch_clocks(@, made.bs.board.turn),
                                       !.input_handler = soft_reset(@)]} :
          \E drained \in {execute_next_premove_if_valid(moved.input_handler,
                                                        moved.board_state)} :
          LET applied == move # ValueError /\ move \in legal_moves(board_state.board)
                         /\ made.ret
              after == [moved EXCEPT !.input_handler = drained.ih,
                                     !.board_state = drained.bs]
          IN /\ IF ~applied THEN Commit(polled)
                ELSE IF check_game_end_conditions(moved.board_state).is_over
                THEN \E done \in Concluded(moved) : Commit(done)
                ELSE IF ~has_premove(moved.input_handler) THEN Commit(moved)
                ELSE IF drained.ret
                THEN \E recorded \in {Recorded(after)} :
                         \E done \in Concluded(recorded) : Commit(done)
                ELSE Commit(after)
             /\ call' = IF applied
                        THEN [op |-> "engine_move", arg |-> item, before |-> board_state,
                              queued |-> input_handler.premove_queue,
                              moved |-> moved.board_state]
                        ELSE Other

\* _engine_worker: get_best_move returns and stop_thinking is read
WorkerReturns ==
    \E i \in 1..Len(workers) :
    \E answer \in get_best_move(analysed(workers[i], board_state.board)) :
        /\ Followed
        /\ workers[i].pc = "get_best_move"
        /\ workers' = [workers EXCEPT ![i] =
               IF answer = ValueError THEN [@ EXCEPT !.pc = "put"]
               ELSE IF engine_controller.stop_thinking THEN [@ EXCEPT !.pc = "finally"]
               ELSE [@ EXCEPT !.pc = "put", !.move_uci = Some(answer.returned)]]
        /\ call' = Other
        /\ UNCHANGED <<board_state, input_handler, engine_controller, move_history,
                       game_ended, running, HUMAN_COLOR, engine_ready, clocks, premove_log,
                       jumped>>

\* _engine_worker: move_queue.put, of the move or of None after an exception
WorkerPuts ==
    \E i \in 1..Len(workers) :
        /\ Followed
        /\ workers[i].pc = "put"
        /\ engine_controller' =
               [engine_controller EXCEPT !.move_queue =
                    Append(@, [move_uci |-> workers[i].move_uci,
                               cancelled |-> workers[i].cancelled])]
        /\ workers' = [workers EXCEPT ![i].pc = "finally"]
        /\ call' = Other
        /\ UNCHANGED <<board_state, input_handler, move_history, game_ended, running,
                       HUMAN_COLOR, engine_ready, clocks, premove_log, jumped>>

\* _engine_worker: the finally clause, and the thread ends
WorkerFinally ==
    \E i \in 1..Len(workers) :
        /\ Followed
        /\ workers[i].pc = "finally"
        /\ engine_controller' = [engine_controller EXCEPT !.thinking = FALSE]
        /\ workers' = Remove(workers, i)
        /\ call' = Other
        /\ UNCHANGED <<board_state, input_handler, move_history, game_ended, running,
                       HUMAN_COLOR, engine_ready, clocks, premove_log, jumped>>

\* main() up to the event loop: the colour dialog, then the engine is asked
\* if it plays White
Init ==
    /\ engine_ready \in BOOLEAN
    /\ \E color \in ColorAnswers :
        LET g == check_engine_turn_and_move(
                     [board_state |-> BoardState(Fen(StartPos, WHITE)),
                      input_handler |-> InputHandler,
                      engine_controller |-> EngineController,
                      workers |-> <<>>,
                      move_history |-> <<>>,
                      game_ended |-> FALSE,
                      running |-> TRUE,
                      HUMAN_COLOR |-> color,
                      clocks |-> start_clocks([white |-> PlayerClock(None),
                                               black |-> PlayerClock(None)]),
                      jumped |-> FALSE])
        IN /\ board_state = g.board_state
           /\ input_handler = g.input_handler
           /\ engine_controller = g.engine_controller
           /\ workers = g.workers
           /\ move_history = g.move_history
           /\ game_ended = g.game_ended
           /\ running = g.running
           /\ HUMAN_COLOR = g.HUMAN_COLOR
           /\ clocks = g.clocks
           /\ jumped = g.jumped
    /\ premove_log = <<>>
    /\ call = Other

Next ==
    \/ MouseButtonDown
    \/ MouseMotion
    \/ MouseButtonUp
    \/ NewGame
    \/ Undo
    \/ ProcessEngineMove
    \/ WorkerReturns
    \/ WorkerPuts
    \/ WorkerFinally

Spec == Init /\ [][Next]_vars

\* the worker threads run, and the event loop keeps making its passes
FairSpec ==
    /\ Spec
    /\ WF_vars(WorkerReturns)
    /\ WF_vars(WorkerPuts)
    /\ WF_vars(WorkerFinally)
    /\ WF_vars(ProcessEngineMove)

\* the event loop while the pointer stays away from the board: the buttons
\* and keys, the engine's workers and the engine move processing
EngineNext ==
    \/ NewGame
    \/ Undo
    \/ ProcessEngineMove
    \/ WorkerReturns
    \/ WorkerPuts
    \/ WorkerFinally

SpecEngine == Init /\ [][EngineNext]_vars

\* the worker threads run, and the event loop keeps making its passes
FairSpecEngine ==
    /\ SpecEngine
    /\ WF_vars(WorkerReturns)
    /\ WF_vars(WorkerPuts)
    /\ WF_vars(WorkerFinally)
    /\ WF_vars(ProcessEngineMove)

\* ------------------------------------------------------------------------
\* The event loop with the "Resign" button: the clicks on the board (moves
\* and premoves), the buttons and keys, the engine's workers and the engine
\* move processing
\* ------------------------------------------------------------------------
\* the "Resign" button: the side to move resigns, the clocks are paused and
\* the result dialog answers "close", or "new_game" with a colour; a
\* computation of the engine is left running
Resigned(g) ==
    LET ended == [g EXCEPT !.game_ended = TRUE, !.clocks = pause_clocks(@)]
    IN {ended}
       \cup {check_engine_turn_and_move(start_new_game_with_dialogs(ended, c)) :
             c \in ColorAnswers}

Resign ==
    /\ running
    /\ \E done \in Resigned(World) : Commit(done)
    /\ call' = [op |-> "resign"]

ResignNext ==
    \/ MouseButtonDown
    \/ MouseButtonUp
    \/ NewGame
    \/ Undo
    \/ Resign
    \/ ProcessEngineMove
    \/ WorkerReturns
    \/ WorkerPuts
    \/ WorkerFinally

SpecResign == Init /\ [][ResignNext]_vars

\* ------------------------------------------------------------------------
\* The event loop with the navigation through the history: the arrow keys
\* and the clicks on the moves of the history panel, between the clicks of a
\* pointer that never drags and is on the board only on the human's turn;
\* no second worker thread is started while one is alive
\* ------------------------------------------------------------------------
\* BoardState.make_move_uci for each string in turn, the results not looked at
RECURSIVE played(_, _)
played(bs, moves) ==
    IF moves = <<>> THEN bs
    ELSE CHOOSE nav_state \in {played(made, Tail(moves)) :
                                   made \in {make_move_uci(bs, Head(moves)).bs}} : TRUE

\* navigate_to_move
navigate_to_move(move_index, full_move_history) ==
    LET moves_to_play == IF move_index >= 0 THEN move_index + 1
                         ELSE Len(full_move_history)
        n == IF moves_to_play < Len(full_move_history) THEN moves_to_play
             ELSE Len(full_move_history)
    IN played(NewBoardState, SubSeq(full_move_history, 1, n))

\* main(): board_state = navigate_to_move(...), and input_handler.reset()
Navigated(g, move_index) ==
    [g EXCEPT !.board_state = navigate_to_move(move_index, g.move_history),
              !.input_handler = input_handler_reset(@)]

\* main(): the Left key, the move it shows (None when it shows nothing new)
key_left(g) ==
    LET current_idx == Len(g.board_state.board.move_stack) - 1
    IN IF current_idx > 0 THEN Some(current_idx - 1)
       ELSE IF current_idx = 0 THEN Some(-1)
       ELSE None

\* main(): the Right key
key_right(g) ==
    LET current_idx == Len(g.board_state.board.move_stack) - 1
    IN IF current_idx < Len(g.move_history) - 1 THEN Some(current_idx + 1) ELSE None

\* main(): the Up key
key_up(g) == IF g.move_history # <<>> THEN Some(0) ELSE None

\* main(): the Down key
key_down(g) == IF g.move_history # <<>> THEN Some(Len(g.move_history) - 1) ELSE None

ArrowKeys == {"left", "right", "up", "down"}
target_idx(key, g) ==
    CASE key = "left" -> key_left(g)
      [] key = "right" -> key_right(g)
      [] key = "up" -> key_up(g)
      [] key = "down" -> key_down(g)

\* main(): a click on move clicked_move_idx of the history panel
history_click(g, clicked_move_idx) ==
    LET r == cancel_thinking(g.engine_controller, g.workers)
    IN [Navigated(g, clicked_move_idx) EXCEPT !.engine_controller = r.ec,
                                              !.workers = r.workers,
                                              !.jumped =
                                                  \/ @
                                                  \/ clicked_move_idx < Len(g.move_history) - 1]

\* the board shown after a navigation holds no more moves than move_history
Shown(g) ==
    /\ Len(g.board_state.board.move_stack) <= MaxHistory
    /\ Becomes(g)

\* a key or a click of the navigation, and the number of moves the board
\* held before it
Key(name) == [op |-> name, shown |-> Len(board_state.board.move_stack)]

\* KEYDOWN of an arrow key
ArrowKey ==
    \E key \in ArrowKeys : \E target \in {target_idx(key, World)} :
    \E g \in {IF target = None THEN World ELSE Navigated(World, Val(target))} :
        /\ running
        /\ Shown(g)
        /\ call' = Key(key)

\* MOUSEBUTTONDOWN on a move of the history panel
HistoryClick ==
    \E clicked_move_idx \in 0..(Len(move_history) - 1) :
        /\ running
        /\ \E g \in {history_click(World, clicked_move_idx)} : Shown(g)
        /\ call' = Key("history_click")

\* the pointer is on the board only while it is the human's turn
HumansTurn == board_state.board.turn = human_color(HUMAN_COLOR)
ClickDown == HumansTurn /\ MouseButtonDown
ClickUp == HumansTurn /\ MouseButtonUp

\* a handler runs while at most one worker thread is alive afterwards
OneWorker(A) == A /\ Len(workers') <= 1

NavigationNext ==
    \/ OneWorker(ClickDown)
    \/ OneWorker(ClickUp)
    \/ OneWorker(NewGame)
    \/ OneWorker(ProcessEngineMove)
    \/ WorkerReturns
    \/ WorkerPuts
    \/ WorkerFinally
    \/ OneWorker(ArrowKey)
    \/ OneWorker(HistoryClick)

\* an engine is loaded
NavigationInit == Init /\ engine_ready

SpecNavigation == NavigationInit /\ [][NavigationNext]_vars

\* positions given to set_fen: a pawn one step from promotion, two knights
\* that reach the same square, a queen one move from mate, a side that is
\* mated, a stalemate with a lone bishop, and the starting position after a
\* hundred half-moves without a capture or a pawn move
TestFens ==
    {FullFen(StartPos, WHITE, {}, None, 100, 51),
     Fen(Position((square(0, 4) :> "K") @@ (square(1, 6) :> "P")
                       @@ (square(0, 7) :> "k")), WHITE),
     Fen(Position((square(0, 5) :> "K") @@ (square(1, 4) :> "Q")
                       @@ (square(0, 7) :> "k")), WHITE),
     Fen(Position((square(0, 5) :> "k") @@ (square(1, 6) :> "q")
                       @@ (square(0, 7) :> "K")), WHITE),
     Fen(Position((square(0, 5) :> "K") @@ (square(0, 6) :> "B")
                       @@ (square(0, 7) :> "k")), BLACK),
     Fen(Position((square(1, 4) :> "K") @@ (square(0, 4) :> "N")
                       @@ (square(0, 6) :> "N") @@ (square(1, 7) :> "k")), BLACK)}

\* moves handed to make_move besides the legal ones: promotion piece missing
\* or spurious, empty source square, own piece captured, a piece of the
\* other side, null move
ProbeMoves ==
    {Move(square(1, 6), square(1, 7), NoPromotion),
     Move(square(1, 5), square(1, 6), "q"),
     Move(square(0, 5), square(0, 6), NoPromotion),
     Move(square(0, 4), square(1, 5), NoPromotion),
     Move(square(1, 7), square(0, 5), NoPromotion),
     NullMove}
InputMoves(board) == legal_moves(board) \cup ProbeMoves
MalformedUci == {"", "b6", "a1a1", "a9a1", "b7b8x", "b6b7qq"}
InputUci(board) ==
    {uci(m) : m \in InputMoves(board) \ {NullMove}} \cup {"0000"} \cup MalformedUci
\* what the external engine is taken to do
EngineAnswers(board) == {Returned(s) : s \in InputUci(board)} \cup {Raised}

\* ------------------------------------------------------------------------
\* A BoardState driven directly through its methods
\* ------------------------------------------------------------------------
main_vars == <<input_handler, engine_controller, workers, move_history, game_ended,
               running, HUMAN_COLOR, engine_ready, clocks, premove_log, jumped>>

Call(op, arg, ret) == [op |-> op, arg |-> arg, ret |-> ret, before |-> board_state]

BS_Init ==
    /\ board_state = BoardState(Fen(StartPos, WHITE))
    /\ call = Call("__init__", None, None)
    /\ input_handler = InputHandler
    /\ engine_controller = EngineController
    /\ workers = <<>>
    /\ move_history = <<>>
    /\ game_ended = FALSE
    /\ running = TRUE
    /\ HUMAN_COLOR = "white"
    /\ engine_ready = FALSE
    /\ clocks = start_clocks([white |-> PlayerClock(None), black |-> PlayerClock(None)])
    /\ premove_log = <<>>
    /\ jumped = FALSE

Fits(res) ==
    /\ Len(res.bs.board.move_stack) <= MaxMoves
    /\ Len(res.bs.move_history_uci) <= MaxMoves

BS_make_move ==
    \E move \in InputMoves(board_state.board) :
        \E res \in {make_move(board_state, move)} :
           /\ Fits(res)
           /\ board_state' = res.bs
           /\ call' = Call("make_move", Some(move), Some(res.ret))
           /\ UNCHANGED main_vars

BS_make_move_uci ==
    \E s \in InputUci(board_state.board) :
        \E res \in {make_move_uci(board_state, s)} :
           /\ Fits(res)
           /\ board_state' = res.bs
           /\ call' = Call("make_move_uci", Some(s), Some(res.ret))
           /\ UNCHANGED main_vars

BS_make_move_from_squares ==
    \E move \in InputMoves(board_state.board) :
        \E res \in {make_move_from_squares(board_state, move.from_square,
                                          move.to_square, move.promotion)} :
           /\ Fits(res)
           /\ board_state' = res.bs
           /\ call' = Call("make_move_from_squares", Some(move), Some(res.ret))
           /\ UNCHANGED main_vars

BS_undo_move ==
    \E res \in {undo_move(board_state)} :
       /\ board_state' = res.bs
       /\ call' = Call("undo_move", None, res.ret)
       /\ UNCHANGED main_vars

\* a copy of the BoardState is made, and returned
BS_copy ==
    /\ call' = Call("copy", None, Some(copy(board_state)))
    /\ UNCHANGED board_state
    /\ UNCHANGED main_vars

BS_reset ==
    /\ board_state' = reset(board_state)
    /\ call' = Call("reset", None, None)
    /\ UNCHANGED main_vars

BS_set_fen ==
    \E fen \in TestFens :
        /\ board_state' = set_fen(board_state, fen)
        /\ call' = Call("set_fen", Some(fen), None)
        /\ UNCHANGED main_vars

\* EngineWrapper.get_best_move called on the position, with or without an
\* engine module loaded (no engine is there to answer when none is loaded)
BS_get_best_move ==
    \E model_loaded \in BOOLEAN :
    \E answer \in (IF model_loaded THEN EngineAnswers(board_state.board) ELSE {Raised}) :
    \E result \in EngineWrapper_get_best_move(model_loaded, answer, board_state.board) :
        /\ call' = Call("get_best_move", [model_loaded |-> model_loaded, answer |-> answer],
                        result)
        /\ UNCHANGED board_state
        /\ UNCHANGED main_vars

BS_Next ==
    \/ BS_make_move
    \/ BS_make_move_uci
    \/ BS_make_move_from_squares
    \/ BS_undo_move
    \/ BS_copy
    \/ BS_reset
    \/ BS_set_fen
    \/ BS_get_best_move

SpecBoard == BS_Init /\ [][BS_Next]_vars

\* ------------------------------------------------------------------------
\* An InputHandler driven by the pointer events of main(), the engine side
\* played by its legal moves
\* ------------------------------------------------------------------------
MaxInputPly == 2    \* moves on the move stack when the pointer drives the handler

engine_vars == <<engine_controller, workers, move_history, game_ended, running,
                 engine_ready, jumped>>

\* the PGN files that are loaded: one without a game, one with a game that
\* has no moves yet
EmptyGame == Pgn("Casual Game", "?", "????.??.??", "?", "Human", "Engine", "*", <<>>)
LoadedGames == {NoGame, EmptyGame}

IH_Init ==
    /\ board_state = BoardState(Fen(StartPos, WHITE))
    /\ input_handler = InputHandler
    /\ HUMAN_COLOR \in Colors
    /\ premove_log = <<>>
    /\ jumped = FALSE
    /\ call = Other
    /\ engine_controller = EngineController
    /\ workers = <<>>
    /\ move_history = <<>>
    /\ game_ended = FALSE
    /\ running = TRUE
    /\ engine_ready = TRUE
    /\ clocks = start_clocks([white |-> PlayerClock(None), black |-> PlayerClock(None)])

\* the clocks after a move of the game was applied: switched, and paused if
\* the game has ended
IH_clocks(cl, bs) ==
    LET switched == switch_clocks(cl, bs.board.turn)
    IN IF check_game_end_conditions(bs).is_over THEN pause_clocks(switched) ELSE switched

\* the handler, the board and the clocks after an event
IH_Commit(ih, bs, cl) ==
    /\ Len(bs.board.move_stack) <= MaxInputPly
    /\ Len(ih.premove_queue) <= MaxQueue
    /\ input_handler' = ih
    /\ board_state' = bs
    /\ clocks' = cl
    /\ premove_log' = LogAfter([input_handler |-> ih])
    /\ UNCHANGED <<HUMAN_COLOR, engine_vars>>

\* the engine is asked as soon as it is its turn and answers in time:
\* is_thinking() is true exactly while the engine side is to move
IH_thinking == board_state.board.turn # human_color(HUMAN_COLOR)

\* the test main() makes before it hands a pointer event to the handler
IH_Allowed ==
    /\ ~is_game_over(board_state.board)
    /\ \/ board_state.board.turn = human_color(HUMAN_COLOR)
       \/ ENABLE_PREMOVE /\ IH_thinking

\* what the handler held when an event reached it
Held(ih) ==
    [selected |-> ih.selected_square, drag_start |-> ih.drag_start_square,
     dragging |-> ih.dragging, queued |-> Len(ih.premove_queue)]

\* MOUSEBUTTONDOWN
IH_mouse_down ==
    \E pos \in Positions :
        /\ IH_Allowed
        /\ \E ih \in {handle_mouse_down(input_handler, board_state, pos, IH_thinking,
                                        HUMAN_COLOR)} :
               IH_Commit(ih, board_state, clocks)
        /\ call' = [op |-> "down"]

\* MOUSEMOTION
IH_mouse_motion ==
    \E pos \in Positions :
        /\ IH_Allowed
        /\ \E ih \in {handle_mouse_motion(input_handler, board_state, pos, IH_thinking)} :
               IH_Commit(ih, board_state, clocks)
        /\ call' = [op |-> "motion"]

\* MOUSEBUTTONUP: handle_mouse_up, then handle_mouse_click unless a move was
\* made, then clear_move_method after a move
IH_mouse_up ==
    \E pos \in Positions : \E answer \in IH_Answers(pos) :
    \E up \in {handle_mouse_up(input_handler, board_state, pos, IH_thinking, HUMAN_COLOR,
                                answer)} :
    \E res \in {IF up.raised \/ up.ret THEN up
                 ELSE handle_mouse_click(up.ih, up.bs, pos, IH_thinking, HUMAN_COLOR,
                                         answer)} :
        /\ IH_Allowed
        /\ ~res.raised
        /\ IF res.ret /\ res.bs.board.move_stack # <<>>
           THEN IH_Commit(clear_move_method(res.ih), res.bs, IH_clocks(clocks, res.bs))
           ELSE IH_Commit(res.ih, res.bs, clocks)
        /\ call' = [op |-> "release", pos |-> pos, up |-> up.ret, ret |-> res.ret,
                    entry |-> Len(res.ih.premove_queue) > Len(input_handler.premove_queue),
                    before |-> Held(input_handler)]

\* the engine move processing of main(): the engine side's move is applied,
\* the clocks are switched, soft_reset, and unless the game is over the
\* next premove is executed, with the bookkeeping of a move if it was made
IH_engine_move ==
    \E move \in legal_moves(board_state.board) :
    \E made \in {make_move(board_state, move)} :
    \E drained \in {execute_next_premove_if_valid(soft_reset(input_handler), made.bs)} :
        LET over == check_game_end_conditions(made.bs).is_over
            drains == ~over /\ has_premove(input_handler)
            switched == IH_clocks(clocks, made.bs)
        IN /\ board_state.board.turn # human_color(HUMAN_COLOR)
           /\ IF ~drains THEN IH_Commit(soft_reset(input_handler), made.bs, switched)
              ELSE IF drained.ret /\ drained.bs.board.move_stack # <<>>
              THEN IH_Commit(clear_move_method(drained.ih), drained.bs,
                             IH_clocks(switched, drained.bs))
              ELSE IH_Commit(drained.ih, drained.bs, switched)
           /\ call' = [op |-> "engine_move", over |-> over, moved |-> made.bs,
                       queued |-> input_handler.premove_queue,
                       ret |-> drains /\ drained.ret]

\* a new game: BoardState.reset, InputHandler.reset, the clocks reset and
\* started
IH_new_game ==
    /\ IH_Commit(input_handler_reset(input_handler), reset(board_state),
                 new_game_clocks(clocks, None))
    /\ call' = [op |-> "new_game", before |-> Held(input_handler)]

\* the "Load" button: the board state is replaced by the loaded one, unless
\* from_pgn raises. The button is pressed with the pointer, which holds no
\* piece then
IH_load_game ==
    \E game \in LoadedGames : \E new_state \in {from_pgn(game)} :
        /\ input_handler.drag_start_square = None
        /\ IF new_state = ValueError THEN IH_Commit(input_handler, board_state, clocks)
           ELSE IH_Commit(input_handler, new_state, clocks)
        /\ call' = [op |-> "load_game", loaded |-> new_state # ValueError,
                    before |-> Held(input_handler)]

IH_Next ==
    \/ IH_mouse_down
    \/ IH_mouse_motion
    \/ IH_mouse_up
    \/ IH_engine_move
    \/ IH_new_game

SpecInput == IH_Init /\ [][IH_Next]_vars

\* games are loaded between the clicks of a pointer that never drags
IH_LoadNext ==
    \/ IH_mouse_down
    \/ IH_mouse_up
    \/ IH_engine_move
    \/ IH_load_game

\* the human plays Black, so that the engine side moves first
IH_LoadInit == IH_Init /\ HUMAN_COLOR = "black"

SpecLoad == IH_LoadInit /\ [][IH_LoadNext]_vars

\* ------------------------------------------------------------------------
\* The clocks of a timed game: moves are applied for both sides, time passes,
\* and each pass of the loop ends with the check for time expiration and the
\* drawing of the clocks
\* ------------------------------------------------------------------------
\* what the time control dialog may answer: Unlimited, or a time
TimeAnswers == {None, Some(MaxTime)}

\* what the result dialog may answer
ResultChoices == {"new_game", "close"}

CK_Init ==
    /\ board_state = BoardState(Fen(StartPos, WHITE))
    /\ input_handler = InputHandler
    /\ HUMAN_COLOR = "white"
    /\ premove_log = <<>>
    /\ jumped = FALSE
    /\ call = Other
    /\ engine_controller = EngineController
    /\ workers = <<>>
    /\ move_history = <<>>
    /\ game_ended = FALSE
    /\ running = TRUE
    /\ engine_ready = TRUE
    /\ \E selected_time_control \in TimeAnswers :
           clocks = start_clocks([white |-> PlayerClock(selected_time_control),
                                  black |-> PlayerClock(selected_time_control)])

clock_frame == <<input_handler, HUMAN_COLOR, premove_log, jumped, engine_controller, workers,
                 running, engine_ready>>

\* a move of the game is applied (the human's, the engine's or a premove):
\* the clocks are switched, and paused if the game has ended
CK_move ==
    \E move \in legal_moves(board_state.board) :
    \E made \in {make_move(board_state, move)} :
        /\ ~game_ended
        /\ Len(board_state.board.move_stack) < MaxClockPly
        /\ board_state' = made.bs
        /\ move_history' = Append(move_history, uci(move))
        /\ clocks' = IH_clocks(clocks, made.bs)
        /\ game_ended' = check_game_end_conditions(made.bs).is_over
        /\ call' = [op |-> "move"]
        /\ UNCHANGED clock_frame

\* a unit of time passes
passed(clock) ==
    IF clock.since_update = None \/ Val(clock.since_update) >= MaxTime THEN clock
    ELSE [clock EXCEPT !.since_update = Some(Val(@) + 1)]
CK_tick ==
    /\ clocks' = [white |-> passed(clocks.white), black |-> passed(clocks.black)]
    /\ clocks' # clocks
    /\ call' = [op |-> "tick"]
    /\ UNCHANGED <<board_state, move_history, game_ended, clock_frame>>

\* the end of a pass of the loop: the check for time expiration, the result
\* dialog when a clock has expired (and a new game if it is asked for), and
\* the clocks are drawn
CK_frame ==
    \E checked \in {time_expiration(board_state, clocks, game_ended)} :
    \E choice \in IF checked.expired THEN ResultChoices ELSE {"close"} :
    \E new_time_control \in IF choice = "new_game" THEN TimeAnswers ELSE {None} :
        /\ IF choice = "new_game"
           THEN /\ board_state' = reset(board_state)
                /\ move_history' = <<>>
                /\ game_ended' = FALSE
                /\ clocks' = draw_clocks(new_game_clocks(checked.clocks, new_time_control))
           ELSE /\ game_ended' = checked.game_ended
                /\ clocks' = draw_clocks(checked.clocks)
                /\ UNCHANGED <<board_state, move_history>>
        /\ call' = [op |-> "frame", expired |-> checked.expired,
                    game_ended |-> checked.game_ended,
                    last_result |-> checked.last_result,
                    choice |-> choice, time_control |-> new_time_control]
        /\ UNCHANGED clock_frame

\* the "New Game" button: the dialogs, then everything is reset
CK_new_game ==
    \E new_time_control \in TimeAnswers :
        /\ board_state' = reset(board_state)
        /\ move_history' = <<>>
        /\ game_ended' = FALSE
        /\ clocks' = new_game_clocks(clocks, new_time_control)
        /\ call' = [op |-> "new_game", time_control |-> new_time_control]
        /\ UNCHANGED clock_frame

\* the "Load" button, for a record of a game without moves
CK_load_game ==
    \E new_state \in {from_pgn(EmptyGame)} :
        /\ board_state' = new_state
        /\ move_history' = get_move_history_uci(new_state)
        /\ game_ended' = FALSE
        /\ call' = [op |-> "load_game"]
        /\ UNCHANGED <<clocks, clock_frame>>

CK_Next ==
    \/ CK_move
    \/ CK_tick
    \/ CK_frame
    \/ CK_new_game
    \/ CK_load_game

SpecClock == CK_Init /\ [][CK_Next]_vars

\* ------------------------------------------------------------------------
\* Saving and loading records: moves are applied for both sides, the game is
\* saved, and records are loaded
\* ------------------------------------------------------------------------
\* the SAN tokens of the records: the notations of the moves of the first
\* two plies of a game (each of them denotes no legal move in some position)
Tokens ==
    UNION {{san(board, m) : m \in legal_moves(board)} :
              board \in {StartBoard} \cup {push(StartBoard, m) : m \in legal_moves(StartBoard)}}

RECURSIVE Movetexts(_)
Movetexts(n) ==
    IF n = 0 THEN {<<>>}
    ELSE Movetexts(n - 1) \cup {Append(t, token) : t \in Movetexts(n - 1), token \in Tokens}

Events == {"Casual Game", "Club Match"}
Results == {"*", "1-0"}

\* the texts of the files that are loaded
PgnTexts ==
    {NoGame} \cup {Pgn(event, "?", "????.??.??", "?", "Human", "Engine", result, movetext) :
                      event \in Events, result \in Results,
                      movetext \in Movetexts(MaxRecordLen)}

Loaded(bs, history, ended, raised) ==
    [board_state |-> bs, move_history |-> history, game_ended |-> ended, raised |-> raised]

\* a load that empties the displayed game before it reads the record
load_pgn_in_place(new_state, bs, history, ended) ==
    IF new_state = ValueError THEN Loaded(reset(bs), <<>>, ended, TRUE)
    ELSE Loaded(new_state, get_move_history_uci(new_state), FALSE, FALSE)

\* the "Load" button of main(), from_pgn having returned new_state: the new
\* state replaces the displayed one, unless from_pgn raised
load_pgn(new_state, bs, history, ended) ==
    IF new_state = ValueError THEN Loaded(bs, history, ended, TRUE)
    ELSE Loaded(new_state, get_move_history_uci(new_state), FALSE, FALSE)

PG_Init ==
    /\ board_state = BoardState(Fen(StartPos, WHITE))
    /\ input_handler = InputHandler
    /\ HUMAN_COLOR = "white"
    /\ premove_log = <<>>
    /\ jumped = FALSE
    /\ call = Other
    /\ engine_controller = EngineController
    /\ workers = <<>>
    /\ move_history = <<>>
    /\ game_ended = FALSE
    /\ running = TRUE
    /\ engine_ready = TRUE
    /\ clocks = start_clocks([white |-> PlayerClock(None), black |-> PlayerClock(None)])

\* a move of the game is applied
PG_move ==
    \E move \in legal_moves(board_state.board) :
    \E made \in {make_move(board_state, move)} :
        /\ ~game_ended
        /\ Len(board_state.board.move_stack) < MaxRecordPly
        /\ board_state' = made.bs
        /\ move_history' = Append(move_history, uci(move))
        /\ clocks' = IH_clocks(clocks, made.bs)
        /\ game_ended' = check_game_end_conditions(made.bs).is_over
        /\ call' = [op |-> "move"]
        /\ UNCHANGED clock_frame

\* the "Save" button: the game is written, if it has a move
PG_save_pgn ==
    /\ Len(board_state.board.move_stack) > 0
    /\ call' = [op |-> "save_pgn", pgn_string |-> to_pgn(board_state)]
    /\ UNCHANGED <<board_state, move_history, game_ended, clocks, clock_frame>>

\* the "Load" button
PG_load_pgn ==
    \E pgn_string \in PgnTexts :
    \E new_state \in {from_pgn(pgn_string)} :
    \E loaded \in {load_pgn(new_state, board_state, move_history, game_ended)} :
        /\ board_state' = loaded.board_state
        /\ move_history' = loaded.move_history
        /\ game_ended' = loaded.game_ended
        /\ call' = [op |-> "load_pgn", pgn_string |-> pgn_string,
                    raised |-> loaded.raised,
                    before |-> board_state, history |-> move_history]
        /\ UNCHANGED <<clocks, clock_frame>>

PG_Next ==
    \/ PG_move
    \/ PG_save_pgn
    \/ PG_load_pgn

SpecRecord == PG_Init /\ [][PG_Next]_vars

\* ------------------------------------------------------------------------
\* A BoardState on the board of the library, from the starting position:
\* the moves of two opening lines are played from their UCI strings in any
\* order that is legal, then any legal move at the end of a line; moves are
\* undone, and the destinations of the knights are asked for
\* ------------------------------------------------------------------------
\* the strings given to make_move_uci: the moves of the lines 1. e4 e5
\* 2. Nf3 Nc6 and 1. e4 Nc6 2. e5 d5, and a move that is never legal
OpeningUci == {"e2e4", "e7e5", "g1f3", "b8c6", "e4e5", "d7d5", "e2e5"}
OpeningLines == {<<"e2e4", "e7e5", "g1f3", "b8c6">>, <<"e2e4", "b8c6", "e4e5", "d7d5">>}

OP_Init ==
    /\ board_state = BoardState(STARTING_FEN)
    /\ call = Call("__init__", None, None)
    /\ input_handler = InputHandler
    /\ engine_controller = EngineController
    /\ workers = <<>>
    /\ move_history = <<>>
    /\ game_ended = FALSE
    /\ running = TRUE
    /\ HUMAN_COLOR = "white"
    /\ engine_ready = FALSE
    /\ clocks = start_clocks([white |-> PlayerClock(None), black |-> PlayerClock(None)])
    /\ premove_log = <<>>
    /\ jumped = FALSE

OP_make_move_uci ==
    \E s \in OpeningUci : \E res \in {make_move_uci(board_state, s)} :
        /\ Len(board_state.board.move_stack) < MaxOpeningPly
        /\ board_state' = res.bs
        /\ call' = Call("make_move_uci", Some(s), Some(res.ret))
        /\ UNCHANGED main_vars

\* any legal move, at the end of one of the two lines
OP_make_move ==
    \E move \in legal_moves(board_state.board) :
    \E res \in {make_move(board_state, move)} :
        /\ board_state.move_history_uci \in OpeningLines
        /\ board_state' = res.bs
        /\ call' = Call("make_move", Some(move), Some(res.ret))
        /\ UNCHANGED main_vars

OP_undo_move ==
    \E res \in {undo_move(board_state)} :
        /\ board_state' = res.bs
        /\ call' = Call("undo_move", None, res.ret)
        /\ UNCHANGED main_vars

OP_get_legal_destinations_from_square ==
    \E sq \in {q \in SQUARES : board_state.board.pos[q] \in {"N", "n"}} :
        /\ call' = Call("get_legal_destinations_from_square", Some(sq),
                        Some(get_legal_destinations_from_square(board_state, sq)))
        /\ UNCHANGED board_state
        /\ UNCHANGED main_vars

OP_Next ==
    \/ OP_make_move_uci
    \/ OP_make_move
    \/ OP_undo_move
    \/ OP_get_legal_destinations_from_square

SpecOpening == OP_Init /\ [][OP_Next]_vars

\* ------------------------------------------------------------------------
\* Properties of BoardState (checked under SpecBoard)
\* ------------------------------------------------------------------------
MoveOps == {"make_move", "make_move_uci", "make_move_from_squares"}

\* the last call was a move method given a move that was not legal in the
\* position it was called on (a string that is no move included)
IllegalCall ==
    /\ call.op \in MoveOps
    /\ LET move == IF call.op = "make_move_uci" THEN from_uci(Val(call.arg))
                   ELSE Val(call.arg)
       IN move = ValueError \/ move \notin legal_moves(call.before.board)

\* the last call made once more on the state it left behind
Again ==
    CASE call.op = "make_move" -> make_move(board_state, Val(call.arg))
      [] call.op = "make_move_uci" -> make_move_uci(board_state, Val(call.arg))
      [] call.op = "make_move_from_squares" ->
            make_move_from_squares(board_state, Val(call.arg).from_square,
                                   Val(call.arg).to_square, Val(call.arg).promotion)

\* C8: make_move, make_move_uci and make_move_from_squares given a move that
\* is not legal in the current position return False and leave the position,
\* the move stack and both histories as they were; the same call made a
\* second time returns False again and changes nothing again.
C8_IllegalMoveRejected ==
    IllegalCall =>
        /\ call.ret = Some(FALSE)
        /\ board_state = call.before
        /\ Again = [bs |-> call.before, ret |-> FALSE]

\* an illegal pawn move without its promotion piece was rejected by
\* make_move_uci after a move had been played
C8_Witness ==
    /\ IllegalCall
    /\ call.op = "make_move_uci"
    /\ call.arg = Some("b7b8")
    /\ call.ret = Some(FALSE)
    /\ Len(board_state.board.move_stack) = 1

Front(h) == SubSeq(h, 1, Len(h) - 1)

\* C9: the UCI history, the SAN history and the move stack have the same
\* length and hold the same moves in the same order (each SAN entry is the
\* notation of its move in the position before it); a successful move method
\* appends exactly one entry to each, a rejected one appends nothing, and
\* only undo_move, reset and set_fen shorten them.
C9_HistoriesParallel ==
    LET b == board_state.board
        n == Len(b.move_stack)
        grown(h0, h1) == Len(h1) = Len(h0) + 1 /\ Front(h1) = h0
    IN /\ Len(board_state.move_history_uci) = n
       /\ Len(board_state.move_history_san) = n
       /\ \A i \in 1..n :
            /\ board_state.move_history_uci[i] = uci(b.move_stack[i])
            /\ from_uci(board_state.move_history_uci[i]) = b.move_stack[i]
            /\ board_state.move_history_san[i] =
                 san(Board(b.state_stack[i].pos, b.state_stack[i].turn), b.move_stack[i])
       /\ call.op \in MoveOps /\ call.ret = Some(TRUE) =>
            /\ grown(call.before.move_history_uci, board_state.move_history_uci)
            /\ grown(call.before.move_history_san, board_state.move_history_san)
            /\ grown(call.before.board.move_stack, b.move_stack)
       /\ call.op \in MoveOps /\ call.ret = Some(FALSE) =>
            /\ board_state.move_history_uci = call.before.move_history_uci
            /\ board_state.move_history_san = call.before.move_history_san
       /\ Len(board_state.move_history_uci) < Len(call.before.move_history_uci) =>
            call.op \in {"undo_move", "reset", "set_fen"}

\* two moves stand in the histories, the second one a capture made through
\* make_move_uci
C9_Witness ==
    /\ call.op = "make_move_uci"
    /\ call.ret = Some(TRUE)
    /\ Len(board_state.move_history_san) = 2
    /\ \E i \in 1..Len(board_state.move_history_san[2]) :
           SubSeq(board_state.move_history_san[2], i, i) = "x"

\* C10: undo_move takes back exactly the last move applied (the position
\* and side to move are those before that move, and playing the move again
\* gives back the state undo_move was called on), removes the last entry of
\* both histories and returns that move; with no move applied it returns
\* None and changes nothing.
C10_UndoRevertsLastMove ==
    call.op = "undo_move" =>
        LET b0 == call.before.board
            n == Len(b0.move_stack)
        IN IF n = 0
           THEN call.ret = None /\ board_state = call.before
           ELSE /\ call.ret = Some(b0.move_stack[n])
                /\ board_state.board.pos = b0.state_stack[n].pos
                /\ board_state.board.turn = b0.state_stack[n].turn
                /\ board_state.board.move_stack = Front(b0.move_stack)
                /\ board_state.move_history_uci = Front(call.before.move_history_uci)
                /\ board_state.move_history_san = Front(call.before.move_history_san)
                /\ make_move(board_state, b0.move_stack[n]) = [bs |-> call.before, ret |-> TRUE]

\* the second of two applied moves was taken back
C10_Witness ==
    /\ call.op = "undo_move"
    /\ call.ret # None
    /\ Len(call.before.board.move_stack) = 2
    /\ Len(board_state.move_history_uci) = 1

C17_WitnessSeveral ==
    /\ is_stalemate(board_state.board)
    /\ is_insufficient_material(board_state.board)
    /\ check_game_end_conditions(board_state).result_type = Some("stalemate")

\* the last call handed a pawn move onto the promotion rank, without a
\* promotion piece, to make_move or make_move_from_squares
PromotionPieceMissing ==
    /\ call.op \in {"make_move", "make_move_from_squares"}
    /\ Val(call.arg) # NullMove
    /\ Val(call.arg).promotion = NoPromotion
    /\ is_promotion_move(call.before, Val(call.arg).from_square, Val(call.arg).to_square)

\* C18: a pawn move onto its promotion rank handed to make_move or
\* make_move_from_squares without a promotion piece is rejected: the call
\* returns False and the state is unchanged, no piece is guessed.
C18_PromotionPieceRequired ==
    PromotionPieceMissing =>
        /\ call.ret = Some(FALSE)
        /\ board_state = call.before

\* the pawn's step to the last rank was open: with a piece named, the move
\* was legal
C18_Witness ==
    /\ PromotionPieceMissing
    /\ call.op = "make_move_from_squares"
    /\ call.ret = Some(FALSE)
    /\ Move(Val(call.arg).from_square, Val(call.arg).to_square, "q")
           \in legal_moves(call.before.board)

\* C19: for a position that has a legal move, EngineWrapper.get_best_move
\* returns the UCI string of a move that is legal in it, whatever the
\* external engine did (not loaded, an illegal move, a string that is no
\* move, an exception).
C19_WrapperReturnsLegalMove ==
    call.op = "get_best_move" /\ legal_moves(board_state.board) # {} =>
        /\ call.ret \in {Returned(uci(m)) : m \in legal_moves(board_state.board)}
        /\ from_uci(call.ret.returned) \in legal_moves(board_state.board)

\* the loaded engine answered with a string that is no move, and the
\* wrapper returned a legal move
C19_Witness ==
    /\ call.op = "get_best_move"
    /\ call.arg.model_loaded
    /\ call.arg.answer = Returned("b6b7qq")
    /\ legal_moves(board_state.board) # {}
    /\ call.ret \in {Returned(uci(m)) : m \in legal_moves(board_state.board)}

\* ------------------------------------------------------------------------
\* Properties of the InputHandler (checked under SpecInput)
\* ------------------------------------------------------------------------
\* no square is selected
Idle(ih) ==
    /\ ih.selected_square = None
    /\ ih.selected_piece = NoPiece
    /\ ih.legal_moves_from_selected = {}

\* no drag is under way or prepared
NoDrag(ih) ==
    /\ ~ih.dragging
    /\ ih.drag_piece = NoPiece
    /\ ih.drag_start_square = None
    /\ ih.drag_pos = None
    /\ ih.drag_start_pos = None

\* the real position real with the moves of queued applied in order, the
\* turn forced to the side of color before each and after the last
Projected(real, queued, color) ==
    with_turn(push_queue(BoardOf(real), queued, human_color(color)),
              human_color(color))

\* the legal moves of the position of board, worked out anew
LegalIn(board) == generate_legal_moves(board.pos, board.turn, board.ep_square)

\* C1: every move in the premove queue was legal for the human's colour in
\* the projected position (the real position with the earlier queued moves
\* applied in order, the turn forced to the human's side) that existed just
\* before it was appended, whether it was queued by click or by drag release.
C1_QueuedMovesWereLegal ==
    /\ Len(premove_log) = Len(input_handler.premove_queue)
    /\ \A i \in 1..Len(input_handler.premove_queue) :
           input_handler.premove_queue[i] \in
               LegalIn(Projected(premove_log[i].real, premove_log[i].queued,
                                 premove_log[i].color))

\* a second premove has just been queued by a drag release behind a first one
C1_Witness ==
    /\ call.op = "release"
    /\ call.entry /\ call.up
    /\ Len(input_handler.premove_queue) = 2
    /\ premove_log[2].queued = <<input_handler.premove_queue[1]>>

\* C3: when the head of the premove queue is not legal in the real position
\* at drain time, the whole queue is emptied, no queued move is applied to
\* the board, and no square is left selected.
C3_IllegalHeadClearsQueue ==
    (/\ call.op = "engine_move"
     /\ ~call.over
     /\ call.queued # <<>>
     /\ Head(call.queued) \notin legal_moves(call.moved.board))
    => /\ input_handler.premove_queue = <<>>
       /\ board_state = call.moved
       /\ Idle(input_handler)
       /\ ~call.ret

\* two premoves were queued and the engine's move made the first illegal
C3_Witness ==
    /\ call.op = "engine_move"
    /\ ~call.over
    /\ Len(call.queued) = 2
    /\ Head(call.queued) \notin legal_moves(call.moved.board)
    /\ input_handler.premove_queue = <<>>

\* C4: entering a premove (second click, or drag release, while the engine
\* is thinking) appends the move to the premove queue and changes nothing of
\* the BoardState: position, side to move, move stack and both histories.
C4_PremoveEntryLeavesBoard ==
    [][call'.op = "release" /\ call'.entry =>
          /\ board_state' = board_state
          /\ Len(input_handler'.premove_queue) = Len(input_handler.premove_queue) + 1
          /\ SubSeq(input_handler'.premove_queue, 1, Len(input_handler.premove_queue))
                 = input_handler.premove_queue]_vars

\* a premove has just been queued by a second click
C4_Witness ==
    /\ call.op = "release"
    /\ call.entry /\ ~call.up
    /\ call.before.selected # None
    /\ Len(input_handler.premove_queue) = call.before.queued + 1

\* C11: a click outside the board, and the start of a new game, leave the
\* handler with no selection, no drag state and an empty premove queue,
\* whatever it held before.
C11_OutsideClickAndNewGameClear ==
    (call.op = "release" /\ call.pos = OffBoard) \/ call.op = "new_game"
    => /\ Idle(input_handler)
       /\ NoDrag(input_handler)
       /\ input_handler.premove_queue = <<>>
       /\ ~input_handler.is_premove_mode

\* a drag was released outside the board while a premove was queued
C11_Witness ==
    /\ call.op = "release"
    /\ call.pos = OffBoard
    /\ call.before.dragging
    /\ call.before.queued > 0
    /\ input_handler.premove_queue = <<>>

\* C13: with a square selected, a click on that same square leaves no
\* square selected, in normal entry and in premove entry alike.
C13_ClickOnSelectedDeselects ==
    (/\ call.op = "release"
     /\ ~call.before.dragging
     /\ call.before.selected = Some(call.pos))
    => input_handler.selected_square = None

\* C13 in normal entry (the human side is to move)
C13_NormalEntryDeselects ==
    [][(/\ call'.op = "release"
        /\ ~IH_thinking
        /\ ~input_handler.dragging
        /\ input_handler.selected_square # None
        /\ input_handler.selected_square = Some(call'.pos))
       => input_handler'.selected_square = None]_vars

\* the squares a drag can start from, with the set cached when the drag
\* starts there and the set cached when the square is selected by a click
DragStart(sq) ==
    handle_mouse_motion(
        handle_mouse_down(soft_reset(input_handler), board_state, sq, IH_thinking,
                          HUMAN_COLOR),
        board_state, OffBoard, IH_thinking)
ClickSelect(sq) ==
    handle_mouse_click(soft_reset(input_handler), board_state, sq, IH_thinking,
                       HUMAN_COLOR, None).ih

\* C14: for every real position, premove queue and own piece square, the
\* legal destinations cached when a drag starts from the square are those
\* cached when the square is selected by click.
C14_DragSetEqualsClickSet ==
    \A sq \in Squares :
        DragStart(sq).dragging =>
            /\ ClickSelect(sq).selected_square = Some(sq)
            /\ DragStart(sq).legal_moves_from_selected
                   = ClickSelect(sq).legal_moves_from_selected

\* C14 in normal entry, and in premove entry with nothing queued
C14_EqualWithEmptyQueue ==
    ~IH_thinking \/ input_handler.premove_queue = <<>> => C14_DragSetEqualsClickSet

Attempt(pos) ==
    LET ih == input_handler
        src == IF ih.dragging THEN ih.drag_start_square ELSE ih.selected_square
        reference == IF IH_thinking THEN build_visual_board(ih, board_state, HUMAN_COLOR)
                     ELSE board_state.board
        side == IF IH_thinking THEN human_color(HUMAN_COLOR) ELSE board_state.board.turn
    IN /\ src # None
       /\ pos \in Squares
       /\ Some(pos) # src
       /\ ~is_color(reference, pos, side)

C2_OneHeadOrQueueCleared ==
    (call.op = "engine_move" /\ call.queued # <<>>)
    => \/ /\ call.ret
          /\ input_handler.premove_queue = Tail(call.queued)
          /\ board_state = make_move(call.moved, Head(call.queued)).bs
          /\ make_move(call.moved, Head(call.queued)).ret
       \/ /\ ~call.ret
          /\ input_handler.premove_queue = <<>>
          /\ board_state = call.moved

\* the same, for the engine moves that do not end the game
C2_OneHeadOrQueueClearedUnlessOver ==
    (call.op = "engine_move" /\ call.queued # <<>> /\ ~call.over)
    => \/ /\ call.ret
          /\ input_handler.premove_queue = Tail(call.queued)
          /\ board_state = make_move(call.moved, Head(call.queued)).bs
          /\ make_move(call.moved, Head(call.queued)).ret
       \/ /\ ~call.ret
          /\ input_handler.premove_queue = <<>>
          /\ board_state = call.moved

\* of two queued premoves the first was applied after the engine's move and
\* the second one waits
C2_WitnessOneApplied ==
    /\ call.op = "engine_move"
    /\ Len(call.queued) = 2
    /\ call.ret
    /\ input_handler.premove_queue = Tail(call.queued)

\* C12: after a game was loaded nothing is selected, no drag is under way
\* or prepared, and the premove queue is empty.
C12_LoadClears ==
    (call.op = "load_game" /\ call.loaded)
    => /\ Idle(input_handler)
       /\ NoDrag(input_handler)
       /\ input_handler.premove_queue = <<>>

\* a move of the game was applied: a live move of the human side, or the
\* engine's move with or without a drained premove behind it
MoveApplied ==
    \/ call.op = "release" /\ call.ret /\ ~call.entry
    \/ call.op = "engine_move"

\* the clock of the side of color
ClockOf(color) == IF color = WHITE THEN clocks.white ELSE clocks.black

\* C20: after every applied move (human move, engine move or drained
\* premove) the clock of the side to move is active and the clock of the
\* other side is not; the two clocks are never active together.
C20_ClockOfSideToMoveActive ==
    /\ ~(clocks.white.is_active /\ clocks.black.is_active)
    /\ MoveApplied
       => /\ ClockOf(board_state.board.turn).is_active
          /\ ~ClockOf(IF board_state.board.turn = WHITE THEN BLACK ELSE WHITE).is_active

\* the engine's move and a drained premove were applied one after the other,
\* and White, the engine's side, is to move again
C20_Witness ==
    /\ call.op = "engine_move"
    /\ call.ret
    /\ board_state.board.turn = WHITE
    /\ clocks.white.is_active
    /\ ~clocks.black.is_active
    /\ Len(board_state.board.move_stack) = 2

\* a live move of the human side was applied and the other clock runs
C20_WitnessLive ==
    /\ call.op = "release" /\ call.ret /\ ~call.entry
    /\ ClockOf(board_state.board.turn).is_active
    /\ board_state.board.turn # human_color(HUMAN_COLOR)

\* ------------------------------------------------------------------------
\* Properties of the engine's side of the event loop (checked under
\* SpecEngine and FairSpecEngine)
\* ------------------------------------------------------------------------
\* the workers that are inside get_best_move
Computing == {i \in 1..Len(workers) : workers[i].pc = "get_best_move"}

\* C5: at any time at most one engine computation is outstanding, whatever
\* the sequence of request_move, cancel_thinking and worker completions.
C5_OneComputationOutstanding == Cardinality(Computing) <= 1

\* C6: a result of an engine computation for which cancellation was
\* requested is never applied to the board.
C6_CancelledResultNotApplied ==
    call.op = "engine_move" => ~call.arg.cancelled

\* a step taken by a worker thread: one worker moves on in _engine_worker,
\* or ends
WorkerStep ==
    \/ Len(workers') < Len(workers)
    \/ /\ Len(workers') = Len(workers)
       /\ \E i \in 1..Len(workers) : workers'[i].pc # workers[i].pc

\* C27: no step of a worker thread changes the live BoardState or the
\* controller's move history, and no step of the event loop (a move, an
\* undo, a new game) changes the position a worker in flight analyses.
C27_WorkerOnOwnCopy ==
    [][/\ WorkerStep => board_state' = board_state /\ move_history' = move_history
       /\ ~WorkerStep =>
              \A i \in 1..Len(workers) :
                  /\ analysed(workers'[i], board_state'.board)
                         = analysed(workers[i], board_state.board)
                  /\ workers'[i].move_history = workers[i].move_history]_vars

\* a move has just been applied to the live board while a worker that was
\* given the position before it is still inside get_best_move
C27_Witness ==
    /\ call.op = "engine_move"
    /\ \E i \in Computing :
           /\ workers[i].board # board_state.board
           /\ workers[i].board = call.before.board

\* it is the engine's turn in a game that has not ended and is followed
EngineToMove ==
    /\ running /\ ~game_ended
    /\ Followed
    /\ board_state.board.turn # human_color(HUMAN_COLOR)
    /\ ~is_game_over(board_state.board)

\* C7: whenever it is the engine's turn in a game that has not ended, an
\* engine-side move is eventually applied to the board.
C7_EngineMoveEventuallyApplied == EngineToMove ~> (call.op = "engine_move")

\* ------------------------------------------------------------------------
\* Properties of the drag state (checked under SpecInput)
\* ------------------------------------------------------------------------
\* C28: after handle_mouse_up has returned, on every branch, dragging is
\* False and the drag piece, the drag source square, the drag position and
\* the start position are all cleared.
C28_ReleaseClearsDragState ==
    call.op = "release" => NoDrag(input_handler)

\* a dragged piece has just been dropped on another square and the move was
\* made
C28_Witness ==
    /\ call.op = "release"
    /\ call.before.dragging
    /\ call.before.drag_start # Some(call.pos)
    /\ call.up /\ call.ret
    /\ board_state.board.move_stack # <<>>
    /\ NoDrag(input_handler)

\* a dragged piece has just been dropped on the square it came from
C28_WitnessStartSquare ==
    /\ call.op = "release"
    /\ call.before.dragging
    /\ call.before.drag_start = Some(call.pos)
    /\ NoDrag(input_handler)

\* ------------------------------------------------------------------------
\* Properties of premove entry in the event loop (checked under Spec)
\* ------------------------------------------------------------------------
\* C29: a move is appended to the premove queue only while the real side to
\* move is not the human's colour.
C29_PremoveOnlyOffTurn ==
    call.op = "premove_entry" => call.before.board.turn # human_color(call.color)

\* ------------------------------------------------------------------------
\* Properties of the clocks (checked under SpecClock)
\* ------------------------------------------------------------------------
\* the colours whose clock has expired
Expired == {color \in {WHITE, BLACK} : is_time_expired(ClockOf(color))}

SideName(color) == IF color = WHITE THEN "White" ELSE "Black"

\* what the expiry of color's clock must yield
ExpiryOutcome(color, last_result) ==
    /\ last_result # None
    /\ IF has_insufficient_material(board_state.board, ~color)
       THEN Val(last_result)[1] = "draw"
       ELSE /\ Val(last_result)[1] = "time_forfeit"
            /\ Val(last_result)[2] = SideName(~color)

\* C21: when the check for time expiration finds a side's clock expired in
\* a game that has not ended, the game ends: as a draw if the opponent of
\* that side has insufficient material to checkmate, otherwise as a time
\* forfeit won by the opponent (with both clocks expired, this holds for one
\* of the two sides); and a time forfeit is never won by a side with
\* insufficient material.
C21_TimeExpiryEndsGame ==
    [][(call'.op = "frame" /\ ~game_ended) =>
          /\ Expired # {} =>
                 /\ call'.expired
                 /\ call'.game_ended
                 /\ \E color \in Expired : ExpiryOutcome(color, call'.last_result)
          /\ \A color \in {WHITE, BLACK} :
                 (/\ call'.last_result # None
                  /\ Val(call'.last_result)[1] = "time_forfeit"
                  /\ Val(call'.last_result)[2] = SideName(color))
                 => ~has_insufficient_material(board_state.board, color)]_vars

\* Black's clock has expired against a king and a pawn, and White has won on
\* time
C21_Witness ==
    /\ call.op = "frame"
    /\ call.expired
    /\ call.choice = "close"
    /\ game_ended
    /\ is_time_expired(clocks.black)
    /\ call.last_result = Some(<<"time_forfeit", "White", "Black ran out of time">>)

\* White's clock has expired against a bare king, and the game is drawn
C21_WitnessDraw ==
    /\ call.op = "frame"
    /\ call.expired
    /\ call.choice = "close"
    /\ game_ended
    /\ is_time_expired(clocks.white)
    /\ call.last_result = Some(<<"draw", "None", "insufficient material">>)

\* C30: after a new game was started with the time control T, the
\* time_control and the time_remaining of both clocks are T, and with T
\* None neither clock reports that its time has expired.
C30_NewGameResetsClocks ==
    (call.op = "new_game" \/ (call.op = "frame" /\ call.choice = "new_game"))
    => /\ \A color \in {WHITE, BLACK} :
              /\ ClockOf(color).time_control = call.time_control
              /\ ClockOf(color).time_remaining = call.time_control
       /\ call.time_control = None => Expired = {}

\* ------------------------------------------------------------------------
\* Properties of the records (checked under SpecRecord)
\* ------------------------------------------------------------------------
\* the movetext of the record has a token that denotes no legal move in the
\* position the tokens before it lead to
RECURSIVE IllegalToken(_, _)
IllegalToken(board, tokens) ==
    /\ tokens # <<>>
    /\ \/ \A m \in legal_moves(board) : san(board, m) # Head(tokens)
       \/ \E m \in legal_moves(board) :
              /\ san(board, m) = Head(tokens)
              /\ IllegalToken(push(board, m), Tail(tokens))

HasIllegalMove(pgn_string) ==
    /\ pgn_string # NoGame
    /\ IllegalToken(StartBoard, pgn_string.movetext)

\* C22: loading a record that contains an illegal move fails: the load
\* raises, and no position is produced from the record.
C22_IllegalMoveFailsLoad ==
    (call.op = "load_pgn" /\ HasIllegalMove(call.pgn_string))
    => /\ call.raised
       /\ board_state = call.before

\* C23: when loading raises, the BoardState (position and both histories)
\* and the move_history of the loop are as they were before the load.
C23_FailedLoadKeepsGame ==
    (call.op = "load_pgn" /\ call.raised)
    => /\ board_state = call.before
       /\ move_history = call.history

\* a load has failed over a game with moves, which is still displayed
C23_Witness ==
    /\ call.op = "load_pgn"
    /\ call.raised
    /\ call.before.board.move_stack # <<>>
    /\ call.history # <<>>
    /\ board_state.move_history_san # <<>>
    /\ board_state = call.before

\* C25: a well-formed record without annotations is exported again as it
\* was loaded: to_pgn(from_pgn(text)) = text.
C25_RecordRoundTrip ==
    (/\ call.op = "load_pgn"
     /\ call.pgn_string # NoGame
     /\ ~HasIllegalMove(call.pgn_string))
    => to_pgn(board_state) = call.pgn_string

\* ------------------------------------------------------------------------
\* Properties of BoardState on the board of the library (checked under
\* SpecOpening)
\* ------------------------------------------------------------------------
\* C24: a move applied by make_move and undone at once by undo_move leaves
\* the position it was made in, in its full serialized form (placement, side
\* to move, castling rights, en passant square, move counters), and both
\* move histories as they were.
C24_MakeThenUndoRestores ==
    [][(/\ call.op \in {"make_move", "make_move_uci"}
        /\ call.ret = Some(TRUE)
        /\ call'.op = "undo_move")
       => /\ get_fen(board_state') = get_fen(call.before)
          /\ board_state'.move_history_uci = call.before.move_history_uci
          /\ board_state'.move_history_san = call.before.move_history_san
          /\ board_state'.board.move_stack = call.before.board.move_stack]_vars

\* a king's move was undone, and the castling rights it had cost are back
C24_Witness ==
    /\ call.op = "undo_move"
    /\ call.ret # None
    /\ piece_type(board_state.board.pos[Val(call.ret).from_square]) = "k"
    /\ get_fen(call.before).castling_rights # get_fen(board_state).castling_rights
    /\ get_fen(call.before).halfmove_clock = get_fen(board_state).halfmove_clock + 1

\* a move was undone in a position with a capture en passant, which is
\* legal again
C24_WitnessEnPassant ==
    /\ call.op = "undo_move"
    /\ call.ret # None
    /\ get_fen(board_state).ep_square # None
    /\ get_fen(call.before).ep_square = None

\* the game 1. e4 e5 2. Nf3 Nc6 from a new BoardState, and the destinations
\* of the knight on f3 asked for
KnightAsked ==
    /\ call.op = "get_legal_destinations_from_square"
    /\ call.arg = Some(parse_square("f3"))
    /\ call.before.move_history_uci = <<"e2e4", "e7e5", "g1f3", "b8c6">>
    /\ Len(call.before.board.move_stack) = Len(call.before.move_history_uci)

\* C26 as the specification states it: after e2e4, e7e5, g1f3, b8c6 the
\* destinations of the knight on f3 are exactly d4, e5, g5 and h4.
C26_KnightDestinationsWithoutG1 ==
    KnightAsked => Val(call.ret) = {parse_square("d4"), parse_square("e5"),
                                    parse_square("g5"), parse_square("h4")}

\* C26: after e2e4, e7e5, g1f3, b8c6 from a new game, the destinations of
\* the knight on f3 returned by get_legal_destinations_from_square are
\* exactly d4, e5, g5, h4 and g1.
C26_KnightDestinations ==
    KnightAsked => Val(call.ret) = {parse_square("d4"), parse_square("e5"),
                                    parse_square("g5"), parse_square("h4"),
                                    parse_square("g1")}

C26_Witness ==
    /\ KnightAsked
    /\ parse_square("g1") \in Val(call.ret)
    /\ board_state.board.pos[parse_square("g1")] = NoPiece
    /\ board_state.board.pos[parse_square("f3")] = "N"

\* ------------------------------------------------------------------------
\* Properties of the U key (checked under SpecEngine)
\* ------------------------------------------------------------------------
\* the moves the U key took off the board
Undone == Len(call.before.board.move_stack) - Len(board_state.board.move_stack)

\* C31: after the U key has undone a move in a game that has not ended it
\* is the human's turn to move, and the controller's move_history is shorter
\* by exactly the moves undone.
C31_UndoLeavesHumanToMove ==
    (call.op = "undo" /\ Undone >= 1 /\ ~game_ended)
        => /\ board_state.board.turn = human_color(HUMAN_COLOR)
           /\ Len(move_history) = Len(call.history) - Undone

\* ------------------------------------------------------------------------
\* Properties of the navigation through the history (checked under
\* SpecNavigation)
\* ------------------------------------------------------------------------
\* C32: the Left key pressed while the displayed board holds exactly one
\* move shows the starting position (no move), and Left never increases the
\* number of moves on the displayed board.
C32_LeftStepsBack ==
    call.op = "left"
        => /\ call.shown = 1 => Len(board_state.board.move_stack) = 0
           /\ Len(board_state.board.move_stack) <= call.shown

NavigationKeys == {"left", "right", "up", "down", "history_click"}

\* C33: after a click on an earlier move of the history panel, and until a
\* new game is started, no move is applied to the displayed position (it changes only
\* by further navigation) and move_history is not extended.
C33_JumpedIsViewOnly ==
    [][(jumped /\ jumped')
       => /\ call'.op \in NavigationKeys \/ board_state' = board_state
          /\ Len(move_history') <= Len(move_history)]_vars

\* ------------------------------------------------------------------------
\* Properties of BoardState.copy and of the result of a game (checked under
\* SpecBoard)
\* ------------------------------------------------------------------------
\* C34: the copy of a BoardState has the same FEN and the same histories as
\* the original, and undo_move gives the same result on the copy as on the
\* original: the same move returned, the same position and histories left.
C34_CopyIndistinguishable ==
    call.op = "copy"
        => /\ get_fen(Val(call.ret)) = get_fen(board_state)
           /\ Val(call.ret).move_history_uci = board_state.move_history_uci
           /\ Val(call.ret).move_history_san = board_state.move_history_san
           /\ undo_move(Val(call.ret)).ret = undo_move(board_state).ret
           /\ get_fen(undo_move(Val(call.ret)).bs) = get_fen(undo_move(board_state).bs)
           /\ undo_move(Val(call.ret)).bs.move_history_uci
                  = undo_move(board_state).bs.move_history_uci

\* C35: get_game_result is non-None whenever check_game_end_conditions reports
\* the game over, it is "1/2-1/2" whenever the report is a draw or a
\* stalemate, and to_pgn then never writes the result "*"
C35_ResultWheneverOver ==
    LET report == check_game_end_conditions(board_state)
    IN report.is_over =>
          /\ get_game_result(board_state) # None
          /\ result_header(board_state) # "*"
          /\ report.result_type # Some("checkmate") =>
                get_game_result(board_state) = Some("1/2-1/2")

\* C36: the controller's move_history equals the UCI history of the real
\* board after every event of the loop (clicks, drags, premove entries, engine
\* moves, drained premoves, undo, new game)
C36_HistoryMatchesBoard == move_history = get_move_history_uci(board_state)

\* the pass of the loop that applied an engine move has applied a queued
\* premove after it, and the game goes on
PremoveDrained ==
    /\ call.op = "engine_move"
    /\ Len(board_state.board.move_stack) = Len(call.moved.board.move_stack) + 1
    /\ ~game_ended
    /\ ~check_game_end_conditions(board_state).is_over

\* C37: after a queued premove was applied in response to an engine move in a
\* position that is not terminal, a worker computes a move for the resulting
\* position, wherever the worker that delivered the engine move stands
C37_DrainStartsEngine ==
    PremoveDrained =>
        \E i \in 1..Len(workers) :
            /\ workers[i].pc = "get_best_move"
            /\ ~workers[i].cancelled
            /\ analysed(workers[i], board_state.board) = board_state.board

\* C38: from a state in which the controller has set game_ended, a step of
\* the loop either starts a new game or leaves the real board, the
\* controller's move_history and the premove queue as they are: no move of
\* the human or of the engine is applied, no premove is drained, nothing is
\* undone, and a result the engine delivers stays in its queue
C38_EndedGameIsFrozen ==
    [][game_ended =>
          \/ /\ ~game_ended'
             /\ board_state'.board.move_stack = <<>>
             /\ move_history' = <<>>
          \/ /\ game_ended'
             /\ board_state' = board_state
             /\ move_history' = move_history
             /\ input_handler'.premove_queue = input_handler.premove_queue]_vars

\* the game was ended while the engine computed, and the engine's result has
\* arrived in the queue since
C38_Witness ==
    /\ game_ended
    /\ Followed
    /\ engine_controller.move_queue # <<>>
    /\ board_state.board.move_stack # <<>>

====
